---- MODULE Spec2Model ----
(***************************************************************************)
(* Data-cache categorisation of otawa-dcache: the ACS domains MUST, MAY    *)
(* and PERS, the per-set fixed point, the age queries of Analysis, the     *)
(* category classifier and the event builder.                              *)
(***************************************************************************)
EXTENDS Integers, Sequences, FiniteSets, TLC

(***************************************************************************)
(* Bounds of the model.                                                    *)
(***************************************************************************)
\* largest associativity of the cache (ways per set)
WayCount == 2
\* number of cached blocks known in the analysed set
NBlocks == 2
\* longest access list of a basic block
MaxAcc == 2

(***************************************************************************)
(* Program constants.                                                      *)
(***************************************************************************)
\* ACS::BOT, the age of a block not yet seen (and the filling of BOT)
AgeBOT == 255
\* width of ACS::age_t (t::uint8)
AgeMod == 256

\* the analysed set (Domain::S) and another set of the cache
S == 0
OtherSet == S + 1

Ids == 0 .. (NBlocks - 1)

(***************************************************************************)
(* State of the analysed program and of one Analysis.                      *)
(***************************************************************************)
VARIABLES
    assoc,  \* associativity given to the domain (actualAssoc of the cache)
    dom,    \* the domain of the analysis (MUST, MAY or PERS)
    g,      \* the CFG: a set of edges <<source, sink>>
    accs,   \* ACCESSES: node -> sequence of accesses
    out,    \* CFGAnalyzer: node -> state after the node
    q,      \* result of the last age query (Analysis::at)
    run,    \* concrete LRU execution of the program on set S
    inp,    \* an access along an edge, with what the analyses answer on it
    cat,    \* CATEGORY and RELATIVE_TO set on the access by CategoryBuilder
    evts,   \* EVENT list put on the edge by EventBuilder
    alg,    \* states of the domain under construction, and a transfer on them
    mp,     \* MultiPERS: the MultiACS objects, os, ds, and the states of a client
    bb,     \* a basic block before the event builder: accesses, in-edges, events
    rel,    \* Analysis::uses and the states handed to the clients of the queries
    ab,     \* the access builder and its SetCollection
    ws      \* an Analysis: its only_sets, its analyzers and the sets it processed

anaVars == <<dom, g, accs, out, q, run>>
catVars == <<inp, cat, evts>>
vars == <<assoc, dom, g, accs, out, q, run, inp, cat, evts, alg, mp, bb, rel, ab, ws>>

\* ACSDomain::A and ACSDomain::sumA are stored as age_t
A == assoc % AgeMod
sumA == (assoc * NBlocks) % AgeMod

Min(x, y) == IF x <= y THEN x ELSE y
Max(x, y) == IF x >= y THEN x ELSE y

(***************************************************************************)
(* Accesses (class Access).                                                *)
(***************************************************************************)
BlockAccess(act, set, id) ==
    [action |-> act, kind |-> "BLOCK", set |-> set, id |-> id, fst |-> 0, lst |-> 0]
AnyAccess(act) ==
    [action |-> act, kind |-> "ANY", set |-> 0, id |-> 0, fst |-> 0, lst |-> 0]
RangeAccess(act, f, l) ==
    [action |-> act, kind |-> "RANGE", set |-> 0, id |-> 0, fst |-> f, lst |-> l]

\* Access::access(int set)
Access_access(a, set) ==
    CASE a.kind = "ANY" -> TRUE
      [] a.kind = "BLOCK" -> a.set = set
      [] OTHER -> IF a.fst < a.lst
                  THEN a.fst <= set /\ set <= a.lst
                  ELSE a.fst <= set \/ set <= a.lst

(***************************************************************************)
(* Abstract cache states (class ACS, class ACSDomain).  A state is the    *)
(* BOT sentinel or an age vector; the sentinel is recognised by address    *)
(* in the code, which the field bot records.                               *)
(***************************************************************************)
\* ACSDomain::make
make(v) == [bot |-> FALSE, age |-> [i \in Ids |-> v]]
\* ACSDomain::BOT
BOT == [bot |-> TRUE, age |-> [i \in Ids |-> AgeBOT]]
\* ACSDomain::sum
sum(age) ==
    LET RECURSIVE Go(_)
        Go(i) == IF i = NBlocks THEN 0 ELSE age[i] + Go(i + 1)
    IN Go(0)

\* ACSDomain::TOP, built from the constructor argument top
TOP(d) == IF d = "MAY" THEN make(0) ELSE make(A)
\* MAY::EMPTY and PERS::EMPTY
EMPTY(d) == IF d = "MAY" THEN make(0) ELSE make(AgeBOT)
\* ACSDomain::entry, MAY::entry, PERS::entry
entry(d) == IF d = "MUST" THEN TOP(d) ELSE EMPTY(d)

\* ACSDomain::equals
equals(s1, s2) ==
    IF s1.bot \/ s2.bot THEN s1.bot = s2.bot ELSE s1.age = s2.age

\* ACSDomain::save, ACS::save: the N bytes of the array age
ACSDomain_save(s) == [i \in 1 .. NBlocks |-> s.age[i - 1] % AgeMod]
\* ACSDomain::load, ACS::load: a new ACS filled with the N bytes read
ACSDomain_load(bytes) == [bot |-> FALSE, age |-> [i \in Ids |-> bytes[i + 1]]]

(***************************************************************************)
(* MUST domain.                                                            *)
(***************************************************************************)
MUST_join(s1, s2) ==
    IF s1.bot THEN s2
    ELSE IF s2.bot THEN s1
    ELSE LET os == [i \in Ids |-> Max(s1.age[i], s2.age[i])]
         IN IF sum(os) = sumA THEN TOP("MUST") ELSE [bot |-> FALSE, age |-> os]

\* an access that ages only the blocks younger than b
MUST_access_Younger(is, b) ==
    IF is.bot THEN is
    ELSE [bot |-> FALSE,
          age |-> [i \in Ids |->
                     IF i = b THEN 0
                     ELSE IF is.age[i] < is.age[b] THEN (is.age[i] + 1) % AgeMod
                     ELSE is.age[i]]]

MUST_access(is, b) ==
    IF is.bot THEN is
    ELSE LET ba == is.age[b]
         IN [bot |-> FALSE,
             age |-> [i \in Ids |->
                        IF i = b THEN 0
                        ELSE IF is.age[i] <= ba /\ is.age[i] # A
                             THEN (is.age[i] + 1) % AgeMod
                             ELSE is.age[i]]]

MUST_purge(is, b) ==
    LET os == [is.age EXCEPT ![b] = A]
    IN IF sum(os) = sumA THEN TOP("MUST") ELSE [bot |-> FALSE, age |-> os]

\* an accessAny that ages no block
MUST_accessAny_Keep(is) == is

MUST_accessAny(is) ==
    LET os == [i \in Ids |-> Min(A, is.age[i] + 1) % AgeMod]
    IN IF sum(os) = sumA THEN TOP("MUST") ELSE [bot |-> FALSE, age |-> os]

\* MUST::update(const Access&, ai::State *)
MUST_update(a, s) ==
    IF ~Access_access(a, S) THEN s
    ELSE IF s.bot THEN s
    ELSE CASE a.action \in {"LOAD", "STORE"} ->
                (CASE a.kind = "ANY" -> MUST_accessAny(s)
                   [] a.kind = "BLOCK" -> MUST_access(s, a.id)
                   [] OTHER -> MUST_accessAny(s))
           [] a.action = "PURGE" ->
                (CASE a.kind = "ANY" -> TOP("MUST")
                   [] a.kind = "BLOCK" -> MUST_purge(s, a.id)
                   [] OTHER -> TOP("MUST"))
           [] OTHER -> s

(***************************************************************************)
(* MAY domain.                                                             *)
(***************************************************************************)
MAY_join(s1, s2) ==
    IF s1.bot THEN s2
    ELSE IF s2.bot THEN s1
    ELSE LET os == [i \in Ids |-> Min(s1.age[i], s2.age[i])]
         IN IF sum(os) = sumA THEN TOP("MAY") ELSE [bot |-> FALSE, age |-> os]

MAY_access(is, b) ==
    LET ba == is.age[b]
    IN [bot |-> FALSE,
        age |-> [i \in Ids |->
                   IF i = b THEN 0
                   ELSE IF is.age[i] <= ba /\ is.age[i] # A
                        THEN (is.age[i] + 1) % AgeMod
                        ELSE is.age[i]]]

MAY_purge(is, b) ==
    LET os == [is.age EXCEPT ![b] = A]
    IN IF sum(os) = sumA THEN TOP("MAY") ELSE [bot |-> FALSE, age |-> os]

MAY_accessAny(is) == is

\* MAY::update(const Access&, ai::State *)
MAY_update(a, s) ==
    IF ~Access_access(a, S) THEN s
    ELSE IF s.bot THEN s
    ELSE CASE a.action \in {"LOAD", "STORE"} ->
                (CASE a.kind = "ANY" -> MAY_accessAny(s)
                   [] a.kind = "BLOCK" -> MAY_access(s, a.id)
                   [] OTHER -> MAY_accessAny(s))
           [] a.action = "PURGE" ->
                (CASE a.kind = "ANY" -> TOP("MAY")
                   [] a.kind = "BLOCK" -> MAY_purge(s, a.id)
                   [] OTHER -> TOP("MAY"))
           [] OTHER -> s

(***************************************************************************)
(* PERS domain.                                                            *)
(***************************************************************************)
PERS_join(s1, s2) ==
    IF s1.bot THEN s2
    ELSE IF s2.bot THEN s1
    ELSE LET s == [i \in Ids |->
                     IF s1.age[i] = AgeBOT THEN s2.age[i]
                     ELSE IF s2.age[i] = AgeBOT THEN s1.age[i]
                     ELSE Max(s1.age[i], s2.age[i])]
             cnt == Cardinality({i \in Ids : s[i] < A /\ s[i] # AgeBOT})
         IN IF cnt <= A /\ sum(s) # sumA
            THEN [bot |-> FALSE, age |-> s]
            ELSE TOP("PERS")

PERS_access(is, b) ==
    LET ba == IF is.age[b] = AgeBOT THEN A ELSE is.age[b]
    IN [bot |-> FALSE,
        age |-> [i \in Ids |->
                   IF i = b THEN 0
                   ELSE IF is.age[i] <= ba /\ is.age[i] # A /\ is.age[i] # AgeBOT
                        THEN (is.age[i] + 1) % AgeMod
                        ELSE is.age[i]]]

PERS_purge(is, b) == [bot |-> FALSE, age |-> [is.age EXCEPT ![b] = A]]

PERS_accessAny(is) ==
    [bot |-> FALSE,
     age |-> [i \in Ids |->
                IF is.age[i] # AgeBOT THEN Min(A, is.age[i] + 1) % AgeMod
                ELSE is.age[i]]]

\* PERS::update(const Access&, ai::State *): no test of BOT, no test of the set
PERS_update(a, s) ==
    CASE a.action \in {"LOAD", "STORE"} ->
            (CASE a.kind = "ANY" -> PERS_accessAny(s)
               [] a.kind = "BLOCK" -> PERS_access(s, a.id)
               [] OTHER -> PERS_accessAny(s))
      [] a.action = "PURGE" ->
            (CASE a.kind = "ANY" -> TOP("PERS")
               [] a.kind = "BLOCK" -> PERS_purge(s, a.id)
               [] OTHER -> TOP("PERS"))
      [] OTHER -> s

(***************************************************************************)
(* Domain dispatch (virtual calls through Domain).                         *)
(***************************************************************************)
Domains == {"MUST", "MAY", "PERS"}

\* Domain::join
join(d, s1, s2) ==
    CASE d = "MUST" -> MUST_join(s1, s2)
      [] d = "MAY" -> MAY_join(s1, s2)
      [] OTHER -> PERS_join(s1, s2)

\* Domain::update(const Access&, ai::State *)
update(d, a, s) ==
    CASE d = "MUST" -> MUST_update(a, s)
      [] d = "MAY" -> MAY_update(a, s)
      [] OTHER -> PERS_update(a, s)

\* the loop shared by MUST::update(Edge *), MAY::update(Edge *) and
\* PERS::update(Block *): the accesses of a block that touch S, in order
RECURSIVE applyAll(_, _, _, _)
applyAll(d, list, j, s) ==
    IF j > Len(list) THEN s
    ELSE applyAll(d, list, j + 1,
                  IF Access_access(list[j], S) THEN update(d, list[j], s) ELSE s)

\* MUST::update(Edge *), MAY::update(Edge *): the accesses of the sink;
\* ACSDomain::update(Edge *) for PERS: identity
update_edge(d, sinkList, s) ==
    IF d = "PERS" THEN s ELSE applyAll(d, sinkList, 1, s)

\* PERS::update(Block *); MUST and MAY inherit the identity
update_block(d, list, s) ==
    IF d = "PERS"
    THEN (IF s.bot THEN s ELSE applyAll(d, list, 1, s))
    ELSE s

(***************************************************************************)
(* MultiPERS domain (class MultiACS, class MultiPERS).  A MultiACS is an   *)
(* object of the collected heap holding an array of PERS states, one per   *)
(* level; a state of the domain is the address of a MultiACS.  The domain  *)
(* keeps the address of its last result in os and the depth seen at each   *)
(* synthetic block in ds.  m is the record of the domain: heap, os, ds,    *)
(* fault.  Each transfer gives the record after the call and its result r. *)
(***************************************************************************)
\* number of MultiACS objects the heap holds between two collections
MaxHeap == 6
\* largest number of levels of a MultiACS the solver goes on with
MaxStack == 3
Addrs == 1 .. MaxHeap

\* MultiPERS::BOT and MultiPERS::TOP, built first by the constructor
MBOT == 1
MTOP == 2

NoObject == [live |-> FALSE, as |-> <<>>]

\* the array as of a MultiACS
Levels(m, p) == m.heap[p].as
\* MultiACS::as.count()
Count(m, p) == Len(m.heap[p].as)

\* ListGC::alloc<MultiACS>
NewAddr(m) ==
    CHOOSE a \in Addrs : ~m.heap[a].live /\ \A b \in 1 .. (a - 1) : m.heap[b].live
HasRoom(m) == \E a \in Addrs : ~m.heap[a].live

\* os = make(...), os = copy(...): a new object, kept in os
MultiPERS_new(m, stack) ==
    [m |-> [m EXCEPT !.heap[NewAddr(m)] = [live |-> TRUE, as |-> stack],
                     !.os = NewAddr(m)],
     r |-> NewAddr(m)]

\* MultiACS::MultiACS(MultiACS *a, int OD, int ND, ACS *i)
MultiACS_copy(stack, OD, ND, i) ==
    [j \in 1 .. ND |-> IF j <= Min(OD, ND) THEN stack[j] ELSE i]

\* MultiPERS::equals: no test of BOT
MultiPERS_equals(m, s1, s2) ==
    /\ Count(m, s1) = Count(m, s2)
    /\ \A i \in 1 .. Count(m, s1) : equals(Levels(m, s1)[i], Levels(m, s2)[i])

\* MultiPERS::join
MultiPERS_join(m, s1, s2) ==
    IF s1 = MBOT THEN [m |-> m, r |-> s2]
    ELSE IF s2 = MBOT THEN [m |-> m, r |-> s1]
    ELSE LET sw == Count(m, s1) < Count(m, s2)
             l == Levels(m, IF sw THEN s2 ELSE s1)
             sh == Levels(m, IF sw THEN s1 ELSE s2)
         IN MultiPERS_new(m, [i \in 1 .. Len(l) |->
                                IF i <= Len(sh) THEN PERS_join(l[i], sh[i])
                                ELSE l[i]])

\* MultiPERS::update(Edge *, ai::State *).  The edge e gives LOOP_EXIT,
\* LOOP_ENTRY, the depths of the loops of its ends and isSynth of its
\* source.  An array of negative size cannot be allocated: fault.
MultiPERS_update_edge(m, e, s) ==
    LET nd == Count(m, s) + e.sinkDepth - e.sourceDepth
        d == IF e.synth THEN m.ds[e.source] ELSE -1
    IN IF e.exit
       THEN (IF nd < 0
             THEN [m |-> [m EXCEPT !.fault = TRUE], r |-> s]
             ELSE MultiPERS_new(m, MultiACS_copy(Levels(m, s), Count(m, s), nd,
                                                 entry("PERS"))))
       ELSE IF e.entry
       THEN MultiPERS_new(m, MultiACS_copy(Levels(m, s), Count(m, s),
                                           Count(m, s) + 1, entry("PERS")))
       ELSE IF ~e.synth
       THEN [m |-> [m EXCEPT !.os = s], r |-> s]
       ELSE IF d = -1
       THEN [m |-> m, r |-> MBOT]
       ELSE IF d = Count(m, s)
       THEN MultiPERS_new(m, Levels(m, s))
       ELSE MultiPERS_new(m, MultiACS_copy(Levels(m, s), Count(m, s), d,
                                           entry("PERS")))

\* MultiPERS::update(Block *, ai::State *): the accesses of v that touch S
\* are applied to the levels of the object os, in place, and os is returned
MultiPERS_update_block(m, v, isSynth, list, s) ==
    IF s = MBOT THEN [m |-> m, r |-> MBOT]
    ELSE LET m1 == IF isSynth THEN [m EXCEPT !.ds[v] = Count(m, s)] ELSE m
         IN [m |-> [m1 EXCEPT !.heap[m.os].as =
                        [i \in 1 .. Count(m, m.os) |->
                            applyAll("PERS", list, 1, Levels(m, m.os)[i])]],
             r |-> m.os]

\* MultiPERS::update(const Access&, ai::State *)
MultiPERS_update(m, a, s) ==
    IF s = MBOT THEN [m |-> m, r |-> MBOT]
    ELSE MultiPERS_new(m, [i \in 1 .. Count(m, s) |->
                             PERS_update(a, Levels(m, s)[i])])

(***************************************************************************)
(* The CFG the MultiPERS transfers are called on: entry 0; loop 1, holding *)
(* loop 2, holding the call 3; loop 4, after loop 1, holding the call 6;   *)
(* block 5 outside the loops.  Loop::of and the properties LOOP_ENTRY and  *)
(* LOOP_EXIT are those the loop analysis of OTAWA gives on this CFG.       *)
(***************************************************************************)
MNodes == 0 .. 6
MEdges ==
    {<<0, 1>>, <<0, 5>>, <<1, 2>>, <<2, 3>>, <<3, 2>>, <<2, 1>>, <<2, 4>>,
     <<1, 4>>, <<4, 4>>, <<4, 6>>, <<6, 4>>, <<4, 5>>, <<1, 5>>, <<3, 5>>,
     <<6, 5>>}
\* Block::isSynth
MSynth == {3, 6}
\* the headers of the loops holding a block
MLoopsOf(v) ==
    CASE v = 1 -> {1}
      [] v \in {2, 3} -> {1, 2}
      [] v \in {4, 6} -> {4}
      [] OTHER -> {}
\* Loop::of(v)->depth()
MDepth(v) == Cardinality(MLoopsOf(v))
\* LOOP_EXIT(e): the source lies in a loop that does not hold the sink
LOOP_EXIT(u, v) == MLoopsOf(u) \ MLoopsOf(v) # {}
\* LOOP_ENTRY(e): the sink is the header of a loop that does not hold the source
LOOP_ENTRY(u, v) == v \in MLoopsOf(v) /\ v \notin MLoopsOf(u)
\* what MultiPERS::update(Edge *, ai::State *) reads of an edge
EdgeOf(u, v) ==
    [source |-> u, sink |-> v, exit |-> LOOP_EXIT(u, v), entry |-> LOOP_ENTRY(u, v),
     synth |-> u \in MSynth, sourceDepth |-> MDepth(u), sinkDepth |-> MDepth(v)]

\* the lists ACCESSES(v) of the block 2 and of the blocks 4 and 5
MLists ==
    {<<>>, <<BlockAccess("LOAD", S, 0)>>,
     <<BlockAccess("STORE", S, NBlocks - 1), AnyAccess("LOAD")>>}

\* the last call of the domain: the transfer, its edge or block, its result
NoCall == [op |-> "none", e |-> <<0, 0>>, r |-> MBOT, w |-> -1]

\* before MultiPERS is built
NoMulti ==
    [heap |-> [a \in Addrs |-> NoObject], os |-> MBOT, ds |-> [v \in MSynth |-> -1],
     fault |-> FALSE, cur |-> MBOT, pos |-> 0, phase |-> "off", saved |-> MBOT,
     offpath |-> FALSE, last |-> NoCall]

\* MultiPERS::save: out->write is given the depth c cast to an address, not
\* the address of c: the four bytes written are those found at that address,
\* the word w, when the write does not fail; then each level is saved
MultiPERS_save(m, s, w) ==
    [depth |-> w, blobs |-> [i \in 1 .. Count(m, s) |-> ACSDomain_save(Levels(m, s)[i])]]

\* MultiPERS::load: the depth c is read, then c levels; the read of a level
\* past the end of the stream throws
MultiPERS_load(m, stream) ==
    IF stream.depth > Len(stream.blobs)
    THEN [m |-> [m EXCEPT !.fault = TRUE], r |-> MBOT]
    ELSE MultiPERS_new(m, [i \in 1 .. stream.depth |->
                             ACSDomain_load(stream.blobs[i])])

\* ListGC: the objects no root reaches are freed
Collect(m, roots) ==
    [m EXCEPT !.heap = [a \in Addrs |->
                          IF a \in roots \cup {MBOT, MTOP, m.os} THEN m.heap[a]
                          ELSE NoObject]]

(***************************************************************************)
(* The CFG and the fixed point of CFGAnalyzer.                             *)
(***************************************************************************)
Entry == 0
NodeCount == 4
Nodes == 0 .. (NodeCount - 1)

\* a loop: entry -> 1 (header) -> 2 (body) -> 1, 1 -> 3 (exit)
LoopCFG == {<<0, 1>>, <<1, 2>>, <<2, 1>>, <<1, 3>>}

\* accesses the address provider may put in a block
LoadAlphabet ==
    {BlockAccess("LOAD", S, b) : b \in Ids}
        \cup {BlockAccess("LOAD", OtherSet, 0), AnyAccess("LOAD")}

\* two entries into the cycle 1 <-> 2: an irreducible loop
IrreducibleCFG == {<<0, 1>>, <<0, 2>>, <<1, 2>>, <<2, 1>>, <<1, 3>>}
\* a loop 1 -> {2 | direct} -> 3 -> 1 whose body joins two paths
BranchCFG == {<<0, 1>>, <<1, 2>>, <<1, 3>>, <<2, 3>>, <<3, 1>>}
Shapes == {LoopCFG, IrreducibleCFG, BranchCFG}

\* loads of the set and the purge of a block
PurgeAlphabet ==
    {BlockAccess("LOAD", S, b) : b \in Ids}
        \cup {AnyAccess("LOAD"), BlockAccess("PURGE", S, 0)}

Lists(alphabet, n) == UNION {[1 .. k -> alphabet] : k \in 0 .. n}

InEdges(v) == {e \in g : e[2] = v}
OutEdges(v) == {e \in g : e[1] = v}

\* CFGAnalyzer::before(Edge *): the state after the source
before_e(e) == out[e[1]]
\* CFGAnalyzer::after(Edge *)
after_e(e) == update_edge(dom, accs[e[2]], before_e(e))

\* join of the states after the in-edges, taken by ascending source
RECURSIVE joinFrom(_, _, _)
joinFrom(v, n, s) ==
    IF n = NodeCount THEN s
    ELSE joinFrom(v, n + 1,
                  IF <<n, v>> \in g THEN join(dom, s, after_e(<<n, v>>)) ELSE s)

\* CFGAnalyzer::before(Block *)
before_v(v) == IF v = Entry THEN entry(dom) ELSE joinFrom(v, 0, BOT)
\* CFGAnalyzer::after(Block *)
after_v(v) == update_block(dom, accs[v], before_v(v))

Unstable(v) == ~equals(after_v(v), out[v])
Stable == \A v \in Nodes : ~Unstable(v)

(***************************************************************************)
(* Analysis::at and the age queries.                                       *)
(***************************************************************************)
\* Analysis::at(Block *, const Access&, ai::State *, int): list = ACCESSES(v),
\* k = position of the looked access a in list, s = state before v
RECURSIVE at_loop(_, _, _, _, _, _)
at_loop(d, list, k, s, j, cs) ==
    IF j = k THEN cs
    ELSE IF Access_access(list[j], S)
         THEN at_loop(d, list, k, s, j + 1, update(d, list[k], s))
         ELSE at_loop(d, list, k, s, j + 1, cs)

at(d, list, k, s) == at_loop(d, list, k, s, 1, s)

\* Analysis::at(Edge *, const Access&, int)
at_e(e, k) == at(dom, accs[e[2]], k, before_e(e))

\* MUSTAnalysis::age(Edge *, ...), MAYAnalysis::age, PERSAnalysis::age
age_e(e, k, b) == at_e(e, k).age[b]

(***************************************************************************)
(* Concrete A-way LRU set: a sequence of blocks, youngest first.  Names    *)
(* 0 .. NBlocks-1 are the known blocks, NBlocks is a block of the set the  *)
(* address provider never named, NBlocks+1 stands for an address that      *)
(* falls in another set.                                                   *)
(***************************************************************************)
Unknown == NBlocks
Outside == NBlocks + 1
Names == Ids \cup {Unknown}
Targets == Names \cup {Outside}

InCache(c, b) == \E i \in 1 .. Len(c) : c[i] = b

Without(c, b) == SelectSeq(c, LAMBDA x : x # b)

lru(c, b) ==
    LET n == <<b>> \o Without(c, b)
    IN IF Len(n) > assoc THEN SubSeq(n, 1, assoc) ELSE n

Caches(n) == UNION {{c \in [1 .. k -> Names] :
                       \A i, j \in 1 .. k : i # j => c[i] # c[j]} : k \in 0 .. n}

\* accesses that touch S, given to the transfer of a domain
DomAlphabet ==
    {BlockAccess(act, S, b) : act \in {"LOAD", "PURGE"}, b \in Ids}
        \cup {AnyAccess("LOAD"), AnyAccess("PURGE"), RangeAccess("STORE", S, OtherSet)}

NoAlg ==
    [pc |-> "off", s |-> <<BOT, BOT, BOT>>, x |-> AnyAccess("NO_ACCESS"),
     r |-> <<BOT, BOT>>, j |-> BOT]

NoRun == [pc |-> Entry, idx |-> 0, via |-> Entry, cache |-> <<>>, loaded |-> {}]
NoQuery == [e |-> <<Entry, Entry>>, k |-> 0, st |-> BOT]

(***************************************************************************)
(* Categories and events.  An access is seen along an edge e; for each of  *)
(* its cache blocks the analyses answer an age (MUST, PERS, MAY) or a      *)
(* level (MultiPERS).  The sink of e lies in a loop nest of its CFG, which *)
(* may be called from a loop of another CFG.                               *)
(***************************************************************************)
\* deepest loop nest around the sink
MaxDepth == 2
\* largest MultiPERS level answered
MaxLevel == 2
\* most blocks of an ENUM access
MaxEnum == 2
\* largest multiCount of a multiple-access instruction
MaxMulti == 2

\* hard::Bank of the memory: latencies in cycles
Banks ==
    {[name |-> "fast", readLatency |-> 1, writeLatency |-> 2],
     [name |-> "slow", readLatency |-> 3, writeLatency |-> 5]}

MaxOf(set) == CHOOSE x \in set : \A y \in set : y <= x
\* hard::Memory::worstReadTime, hard::Memory::worstWriteTime
worstReadTime == MaxOf({b.readLatency : b \in Banks})
worstWriteTime == MaxOf({b.writeLatency : b \in Banks})

\* enum action_t, enum kind_t
Actions == {"NO_ACCESS", "LOAD", "STORE", "PURGE", "DIRECT_LOAD", "DIRECT_STORE"}
Kinds == {"ANY", "BLOCK", "RANGE", "ENUM"}

\* Loop (of the sink of e): the CFG it belongs to and its depth, 0 for the
\* top-level loop of the CFG
LoopOf(cfg, depth) == [cfg |-> cfg, depth |-> depth]
isTop(l) == l.depth = 0
parent(l) == [l EXCEPT !.depth = @ - 1]
\* l->header()
header(l) == [kind |-> "header", cfg |-> l.cfg, depth |-> l.depth]
\* l->cfg()->entry()->outEdges().begin()->sink()
firstBlock(l) == [kind |-> "first", cfg |-> l.cfg, depth |-> 0]
\* nullptr
NoBlock == [kind |-> "null", cfg |-> "", depth |-> 0]

\* the walk of n - 1 levels up from the loop of the sink (MultiPERS branch)
RECURSIVE levelWalk(_, _, _, _)
levelWalk(x, l, i, n) ==
    IF i >= n THEN l
    ELSE IF ~isTop(l) THEN levelWalk(x, parent(l), i + 1, n)
    ELSE IF x.callCount = 1
         THEN levelWalk(x, LoopOf("caller", x.callerDepth), i + 1, n)
         ELSE l

\* the walk to the outermost loop of the CFG (PERS branch)
RECURSIVE outermost(_)
outermost(l) ==
    IF isTop(l) THEN l
    ELSE IF isTop(parent(l)) THEN l
    ELSE outermost(parent(l))

anchor(l) == IF isTop(l) THEN firstBlock(l) ELSE header(l)

\* CategoryBuilder::classify with the MAY test placed before the PERS test
CategoryBuilder_classify_MayFirst(x, cb) ==
    IF cb.must < A THEN <<"AH", NoBlock>>
    ELSE IF x.mpers /\ cb.level # 0
         THEN <<"PE", anchor(levelWalk(x, LoopOf("callee", x.depth), 1, cb.level))>>
    ELSE IF x.may /\ cb.may >= A THEN <<"AM", NoBlock>>
    ELSE IF x.pers /\ cb.pers < A
         THEN <<"PE", anchor(outermost(LoopOf("callee", x.depth)))>>
    ELSE <<"NC", NoBlock>>

\* CategoryBuilder::classify on block cb of access x: <<category, h>>
CategoryBuilder_classify(x, cb) ==
    IF cb.must < A THEN <<"AH", NoBlock>>
    ELSE IF x.mpers /\ cb.level # 0
         THEN <<"PE", anchor(levelWalk(x, LoopOf("callee", x.depth), 1, cb.level))>>
    ELSE IF x.pers /\ cb.pers < A
         THEN <<"PE", anchor(outermost(LoopOf("callee", x.depth)))>>
    ELSE IF x.may /\ cb.may >= A THEN <<"AM", NoBlock>>
    ELSE <<"NC", NoBlock>>

\* CategoryBuilder::processBlock
Cat_processBlock(x) ==
    LET c == CategoryBuilder_classify(x, x.blocks[1])
    IN [c |-> c[1], h |-> IF c[1] = "PE" THEN c[2] ELSE NoBlock]

\* CategoryBuilder::processEnum: the loop over a.blocks() from block i on,
\* c the category and fh the anchor found so far
RECURSIVE Cat_enumLoop(_, _, _, _)
Cat_enumLoop(x, i, c, fh) ==
    IF i > Len(x.blocks) THEN [c |-> c, h |-> IF c = "PE" THEN fh ELSE NoBlock]
    ELSE LET r == CategoryBuilder_classify(x, x.blocks[i])
             c2 == IF c = "NO_CAT" THEN r[1] ELSE c
         IN IF c # "NO_CAT" /\ c # r[1]
            THEN [c |-> "NC", h |-> NoBlock]
            ELSE Cat_enumLoop(x, i + 1, c2,
                              IF r[1] = "PE" /\ c2 = "PE" /\ fh = NoBlock
                              THEN r[2] ELSE fh)

\* CategoryBuilder::processEnum keeping the category of the first block
Cat_processEnum_FirstBlock(x) == Cat_processBlock(x)

\* CategoryBuilder::processEnum
Cat_processEnum(x) == Cat_enumLoop(x, 1, "NO_CAT", NoBlock)

\* CategoryBuilder::processAccess: CATEGORY(a) and RELATIVE_TO(a)
Cat_processAccess(x) ==
    CASE x.action \in {"DIRECT_LOAD", "DIRECT_STORE"} -> [c |-> "AM", h |-> NoBlock]
      [] x.action \in {"LOAD", "STORE"} ->
            (CASE x.kind = "BLOCK" -> Cat_processBlock(x)
               [] x.kind = "ENUM" -> Cat_processEnum(x)
               [] OTHER -> [c |-> "NC", h |-> NoBlock])
      [] OTHER -> [c |-> "NO_CAT", h |-> NoBlock]

\* CategoryBuilder::processBB on one access of the block: views[k] is the
\* access as the analyses see it along the k-th in-edge; p holds CATEGORY(a)
\* and RELATIVE_TO(a).  CATEGORY is assigned when the access is classified,
\* RELATIVE_TO only when the category is PE
RECURSIVE CategoryBuilder_processBB(_, _, _)
CategoryBuilder_processBB(views, k, p) ==
    IF k > Len(views) THEN p
    ELSE LET r == Cat_processAccess(views[k])
         IN CategoryBuilder_processBB(views, k + 1,
                [c |-> IF r.c = "NO_CAT" THEN p.c ELSE r.c,
                 h |-> IF r.c = "PE" THEN r.h ELSE p.h])

\* Event::occurrence_t and its operator |
OccCode(o) ==
    CASE o = "NO_OCCURRENCE" -> 0 [] o = "ALWAYS" -> 1 [] o = "NEVER" -> 2
      [] OTHER -> 3
OccOr(o1, o2) ==
    LET a == OccCode(o1)
        b == OccCode(o2)
        r == ((a % 2) + (b % 2) - (a % 2) * (b % 2))
                + 2 * ((a \div 2) + (b \div 2) - (a \div 2) * (b \div 2))
    IN CASE r = 0 -> "NO_OCCURRENCE" [] r = 1 -> "ALWAYS" [] r = 2 -> "NEVER"
         [] OTHER -> "SOMETIMES"

\* ilp::Expression: a sequence of terms coef * VAR(block)
Term(coef, blk) == [coef |-> coef, var |-> blk]
\* new Event(a, cost, occurrence, xs)
Event(cost, occ, xs) == [cost |-> cost, occ |-> occ, xs |-> xs]

\* EventBuilder::classify anchoring a PERS block on the innermost loop
EventBuilder_classify_Innermost(x, cb) ==
    IF cb.must < A THEN <<"NEVER", NoBlock>>
    ELSE IF x.mpers /\ cb.level # 0
         THEN <<"SOMETIMES",
                anchor(levelWalk(x, LoopOf("callee", x.depth), 1, cb.level))>>
    ELSE IF x.pers /\ cb.pers < A
         THEN <<"SOMETIMES", anchor(LoopOf("callee", x.depth))>>
    ELSE IF x.may /\ cb.may >= A THEN <<"NEVER", NoBlock>>
    ELSE <<"SOMETIMES", NoBlock>>

\* EventBuilder::classify on block cb of access x: <<occurrence, h>>
EventBuilder_classify(x, cb) ==
    IF cb.must < A THEN <<"NEVER", NoBlock>>
    ELSE IF x.mpers /\ cb.level # 0
         THEN <<"SOMETIMES",
                anchor(levelWalk(x, LoopOf("callee", x.depth), 1, cb.level))>>
    ELSE IF x.pers /\ cb.pers < A
         THEN <<"SOMETIMES", anchor(outermost(LoopOf("callee", x.depth)))>>
    ELSE IF x.may /\ cb.may >= A THEN <<"NEVER", NoBlock>>
    ELSE <<"SOMETIMES", NoBlock>>

\* EventBuilder::worstAccessTime
worstAccessTime(x) ==
    CASE x.action \in {"LOAD", "DIRECT_LOAD"} -> worstReadTime
      [] x.action \in {"STORE", "DIRECT_STORE"} -> worstWriteTime
      [] OTHER -> 0

\* EventBuilder::processAny
processAny(x) == Event(worstAccessTime(x), "SOMETIMES", <<>>)

\* EventBuilder::processMultiTop making one event per block of the size
processMultiTop_NoSpare(x) ==
    LET access_size == IF x.tsize = 0 THEN 4 ELSE x.tsize
        size == x.multi * access_size
        cnt == (size + x.blockSize - 1) \div x.blockSize
    IN [i \in 1 .. cnt |-> Event(worstAccessTime(x), "SOMETIMES", <<>>)]

\* EventBuilder::processMultiTop: the events added to the edge
processMultiTop(x) ==
    LET access_size == IF x.tsize = 0 THEN 4 ELSE x.tsize
        size == x.multi * access_size
        cnt == ((size + x.blockSize - 1) \div x.blockSize) + 1
    IN [i \in 1 .. cnt |-> Event(worstAccessTime(x), "SOMETIMES", <<>>)]

\* EventBuilder::processBlock charging the worst memory time to the events
\* that may occur
Evt_processBlock_WorstTime(x) ==
    LET cb == x.blocks[1]
        c == EventBuilder_classify(x, cb)
        t == IF c[1] # "NEVER" THEN worstAccessTime(x)
             ELSE IF x.action = "LOAD" THEN cb.bank.readLatency
             ELSE cb.bank.writeLatency
    IN Event(t, c[1], IF c[2] # NoBlock THEN <<Term(1, c[2])>> ELSE <<>>)

\* EventBuilder::processBlock
Evt_processBlock(x) ==
    LET cb == x.blocks[1]
        c == EventBuilder_classify(x, cb)
        t == IF x.action = "LOAD" THEN cb.bank.readLatency
             ELSE cb.bank.writeLatency
    IN Event(t, c[1], IF c[2] # NoBlock THEN <<Term(1, c[2])>> ELSE <<>>)

\* EventBuilder::processEnum: the loop over a.blocks() from block i on
RECURSIVE Evt_enumLoop(_, _, _, _)
Evt_enumLoop(x, i, o, xs) ==
    IF i > Len(x.blocks)
    THEN LET bank == x.blocks[1].bank
         IN Event(IF x.action = "LOAD" THEN bank.readLatency
                  ELSE bank.writeLatency, o, xs)
    ELSE LET c == EventBuilder_classify(x, x.blocks[i])
         IN IF c[2] # NoBlock
            THEN Evt_enumLoop(x, i + 1, OccOr(o, c[1]), Append(xs, Term(1, c[2])))
            ELSE IF c[1] = "SOMETIMES" THEN processAny(x)
            ELSE Evt_enumLoop(x, i + 1, OccOr(o, c[1]), xs)

\* EventBuilder::processEnum looking at the first block only
Evt_processEnum_FirstBlock(x) == Evt_processBlock(x)

\* EventBuilder::processEnum
Evt_processEnum(x) == Evt_enumLoop(x, 1, "NO_OCCURRENCE", <<>>)

\* EventBuilder::processDirect charging the worst memory time
processDirect_WorstTime(x) == Event(worstAccessTime(x), "ALWAYS", <<>>)

\* EventBuilder::processDirect
processDirect(x) ==
    LET t == CASE x.kind \in {"ANY", "RANGE"} -> worstAccessTime(x)
               [] OTHER -> IF x.action = "DIRECT_LOAD"
                           THEN x.blocks[1].bank.readLatency
                           ELSE x.blocks[1].bank.writeLatency
    IN Event(t, "ALWAYS", <<>>)

\* EventBuilder::processAccess: the events added to EVENT(e)
Evt_processAccess(x) ==
    CASE x.action \in {"DIRECT_LOAD", "DIRECT_STORE"} -> <<processDirect(x)>>
      [] x.action \in {"LOAD", "STORE"} ->
            (CASE x.kind = "ANY" ->
                    IF x.multi > 0 THEN processMultiTop(x) ELSE <<processAny(x)>>
               [] x.kind = "BLOCK" -> <<Evt_processBlock(x)>>
               [] x.kind = "ENUM" -> <<Evt_processEnum(x)>>
               [] OTHER -> <<processAny(x)>>)
      [] OTHER -> <<>>

\* what the analyses may answer on one cache block: ages around the
\* associativity (for PERS, below the associativity or not yet seen), a
\* level when MultiPERS is provided
AgeSamples == {A - 1, A}
BlockAnswers(m, p, y) ==
    [must : AgeSamples,
     may : IF y THEN AgeSamples ELSE {0},
     pers : IF p THEN {A - 1, AgeBOT} ELSE {AgeBOT},
     level : IF m THEN 0 .. MaxLevel ELSE {0},
     bank : Banks]

\* the blocks of an access of kind k
BlockLists(k, m, p, y) ==
    CASE k = "BLOCK" -> [1 .. 1 -> BlockAnswers(m, p, y)]
      [] k = "ENUM" -> UNION {[1 .. n -> BlockAnswers(m, p, y)] : n \in 1 .. MaxEnum}
      [] OTHER -> {<<>>}

\* the callers of the CFG of the sink: <<callCount, depth of the loop around
\* the only call>>
CallSites == {<<1, 0>>, <<1, 1>>, <<2, 0>>}
\* the callers of that caller: none (the entry CFG), one call in a loop nest
\* or at top level, several
CallerCallSites == {<<0, 0>>, <<2, 0>>} \cup {<<1, d>> : d \in 0 .. MaxDepth}

NoInput ==
    [action |-> "NO_ACCESS", kind |-> "ANY", multi |-> 0, tsize |-> 0,
     blockSize |-> 8, blocks |-> <<>>, mpers |-> FALSE, pers |-> FALSE,
     may |-> FALSE, depth |-> 0, callCount |-> 0, callerDepth |-> 0,
     callCount2 |-> 0, callerDepth2 |-> 0]
NoCat == [done |-> FALSE, c |-> "NO_CAT", h |-> NoBlock]
NoEvents == [done |-> FALSE, list |-> <<>>]

\* EventBuilder::processAccess: true when a multiple access to T was managed
Evt_managesMulti(x) ==
    x.action \in {"LOAD", "STORE"} /\ x.kind = "ANY" /\ x.multi > 0

\* EventBuilder::processBB, the loop over ACCESSES(b) for one in-edge: list
\* holds the accesses with their instructions, j is the next access, multi
\* the instruction whose accesses are skipped (0 for nullptr), evs the events
\* added to the edge so far, each with the position of its access
RECURSIVE processBB_loop(_, _, _, _)
processBB_loop(list, j, multi, evs) ==
    IF j > Len(list) THEN evs
    ELSE IF list[j].inst = multi THEN processBB_loop(list, j + 1, multi, evs)
    ELSE LET new == Evt_processAccess(list[j].x)
         IN processBB_loop(list, j + 1,
                           IF Evt_managesMulti(list[j].x) THEN list[j].inst
                           ELSE multi,
                           evs \o [i \in 1 .. Len(new) |-> [a |-> j, ev |-> new[i]]])

\* the queries of EventBuilder, without the test on prefix
Prefix_view_AtEdge(prefix, x) == x

\* PrefixEventBuilder::mustAge, mayAge, persAge, mpersLevel, eventBlock: the
\* access x as the builder sees it; with prefix set the ages and the level
\* are asked in the source block of the edge (inSource) and the loop is the
\* one of the source block
Prefix_view(prefix, x) ==
    IF prefix THEN [x EXCEPT !.blocks = x.inSource, !.depth = x.srcDepth] ELSE x

\* PrefixEventBuilder::addEvent for the events evs of edge e, in order
Prefix_addEvent(st, e, evs) ==
    IF st.prefix THEN [st EXCEPT !.pevents[e] = @ \o evs]
    ELSE [st EXCEPT !.events[e] = @ \o evs]

\* the loop over ACCESSES(block) for edge e, as in processBB_loop, with the
\* overriden queries; from names the block of the accesses
Prefix_accesses(st, e, list, from) ==
    LET seen == [i \in DOMAIN list |->
                    [inst |-> list[i].inst, x |-> Prefix_view(st.prefix, list[i].x)]]
        evs == processBB_loop(seen, 1, 0, <<>>)
    IN Prefix_addEvent(st, e, [i \in DOMAIN evs |->
                                  [from |-> from, a |-> evs[i].a, ev |-> evs[i].ev]])

\* PrefixEventBuilder::processBB, the loop over the in-edges from edge e on
\* the accesses of the source of each edge
RECURSIVE Prefix_sources(_, _, _)
Prefix_sources(st, b, e) ==
    IF e > b.edges THEN st
    ELSE Prefix_sources(Prefix_accesses(st, e, b.srcs[e], "source"), b, e + 1)

\* EventBuilder::processBB, the loop over the in-edges from edge e on the
\* accesses of the block
RECURSIVE Prefix_sink(_, _, _)
Prefix_sink(st, b, e) ==
    IF e > b.edges THEN st
    ELSE Prefix_sink(Prefix_accesses(st, e, b.list, "sink"), b, e + 1)

\* PrefixEventBuilder::processBB on block b: the lists EVENT and
\* PREFIX_EVENT of the in-edges
PrefixEventBuilder_processBB(b) ==
    LET st0 == [prefix |-> FALSE, events |-> b.events, pevents |-> b.pevents]
        st1 == Prefix_sources([st0 EXCEPT !.prefix = TRUE], b, 1)
        st2 == Prefix_sink([st1 EXCEPT !.prefix = FALSE], b, 1)
    IN IF b.basic THEN st2 ELSE st0

\* no block given to the event builder
NoBB == [done |-> FALSE, basic |-> FALSE, list |-> <<>>, edges |-> 0,
         events |-> <<>>]

(***************************************************************************)
(* The states handed out by the queries of Analysis.  uses maps a state to *)
(* the set it was computed for; held counts, for each state, how many      *)
(* times it was handed out and not yet released.                           *)
(***************************************************************************)
\* the states the analyzer of the set may return, by address
MaxStates == 3
StateRefs == 1 .. MaxStates
\* most times a state is handed out and not yet released
MaxHeld == 2

\* no query made yet: uses is empty
NoRel ==
    [on |-> FALSE, uses |-> [s \in StateRefs |-> -1], held |-> [s \in StateRefs |-> 0],
     failed |-> FALSE, last |-> [op |-> "none", s |-> 1, held |-> 0]]

\* uses.put(r, s)
uses_put(u, r, set) == [u EXCEPT ![r] = set]
\* uses.remove(r)
uses_remove(u, r) == [u EXCEPT ![r] = -1]
\* uses.get(s, -1)
uses_get(u, s) == u[s]

(***************************************************************************)
(* The cache index model (class CacheBlock, class BlockCollection, class   *)
(* SetCollection) over the hardware description of the platform: the cache *)
(* geometry and the memory banks.                                          *)
(***************************************************************************)
\* size of a cache block in bytes (hard::Cache::blockSize)
BlockSize == 2
\* numbers of cache blocks of the cached bank, of the non-cached bank, and
\* of the addresses no bank backs; the banks begin and end with a cache block
RamBlocks == 6
IoBlocks == 4
FreeBlocks == 2
\* first address of the non-cached bank, first address without bank
IoBase == RamBlocks * BlockSize
FreeBase == (RamBlocks + IoBlocks) * BlockSize
\* number of bytes of the address space of the platform
MemSize == (RamBlocks + IoBlocks + FreeBlocks) * BlockSize
Addresses == 0 .. (MemSize - 1)
\* the numbers of sets of the caches of the platform
SetCounts == {2, 4}

\* hard::Cache::round: the address of the cache block of a
Cache_round(a) == a - (a % BlockSize)
\* hard::Cache::block: the number of the cache block of a
Cache_block(a) == a \div BlockSize
\* hard::Cache::set: the set of the cache block of a
Cache_set(setCount, a) == Cache_block(a) % setCount
\* hard::Cache::tag: the tag of the cache block of a
Cache_tag(setCount, a) == Cache_block(a) \div setCount
\* hard::Cache::countBlocks: the number of cache blocks from l to h
Cache_countBlocks(l, h) == Cache_block(h) - Cache_block(l) + 1
Tags == 0 .. Cache_tag(2, MemSize - 1)

\* the memory banks (hard::Memory): a cached one, a non-cached one, and
\* addresses above them that no bank backs
Memory_banks ==
    {[name |-> "RAM", lo |-> 0, hi |-> IoBase - 1, cached |-> TRUE],
     [name |-> "IO", lo |-> IoBase, hi |-> FreeBase - 1, cached |-> FALSE]}
NoBank == [name |-> "", lo |-> 0, hi |-> -1, cached |-> FALSE]
\* hard::Memory::get: the bank of address a, nullptr for none
Memory_get(a) ==
    IF \E k \in Memory_banks : k.lo <= a /\ a <= k.hi
    THEN CHOOSE k \in Memory_banks : k.lo <= a /\ a <= k.hi
    ELSE NoBank

\* CacheBlock::CacheBlock; obj names the object created
CacheBlock(tag, set, id, bank, obj) ==
    [tag |-> tag, set |-> set, id |-> id, bank |-> bank.name, obj |-> obj]
\* the null pointer to a CacheBlock
NullBlock == [tag |-> -1, set |-> -1, id |-> -1, bank |-> "", obj |-> 0]

\* BlockCollection::BlockCollection
BlockCollection(set) ==
    [set |-> set, cnt |-> 0, nccnt |-> 0, blks |-> <<>>,
     map |-> [t \in Tags |-> NullBlock]]
\* BlockCollection::count
BlockCollection_count(bc) == bc.cnt
\* BlockCollection::at
BlockCollection_at(bc, setCount, a) ==
    IF Cache_set(setCount, a) # bc.set THEN NullBlock
    ELSE bc.map[Cache_tag(setCount, a)]
\* BlockCollection::add without the count of the cached blocks
BlockCollection_add_NoCount(bc, tag, bank, obj) ==
    LET id == bc.cnt
        b == IF bank.cached THEN CacheBlock(tag, bc.set, id, bank, obj)
             ELSE CacheBlock(tag, bc.set, -1, bank, obj)
    IN [bc |-> [bc EXCEPT !.blks = IF bank.cached THEN Append(@, b) ELSE @,
                          !.map = [@ EXCEPT ![tag] = b]],
        b |-> b]
\* BlockCollection::add: the collection after the call and the block made
BlockCollection_add(bc, tag, bank, obj) ==
    LET id == bc.cnt
        b == IF bank.cached THEN CacheBlock(tag, bc.set, id, bank, obj)
             ELSE CacheBlock(tag, bc.set, -1, bank, obj)
        blks == IF ~bank.cached THEN bc.blks
                ELSE IF bc.nccnt = Len(bc.blks) THEN Append(bc.blks, b)
                ELSE Append(bc.blks, bc.blks[id + 1])
    IN [bc |-> [bc EXCEPT !.cnt = IF bank.cached THEN id + 1 ELSE @,
                          !.nccnt = IF bank.cached THEN @ + 1 ELSE @,
                          !.blks = blks,
                          !.map = [@ EXCEPT ![tag] = b]],
        b |-> b]
\* BlockCollection::block
BlockCollection_block(bc, id) == bc.blks[id + 1]

\* SetCollection::SetCollection; objs counts the CacheBlock objects created
SetCollection(setCount) ==
    [setCount |-> setCount, objs |-> 0,
     sets |-> [s \in 0 .. (setCount - 1) |-> BlockCollection(s)]]
\* SetCollection::at
SetCollection_at(c, a) ==
    BlockCollection_at(c.sets[Cache_set(c.setCount, a)], c.setCount, a)
\* SetCollection::add: the collection after the call and the block returned
SetCollection_add(c, a) ==
    LET s == Cache_set(c.setCount, a)
        b == BlockCollection_at(c.sets[s], c.setCount, a)
        bank == Memory_get(a)
        new == BlockCollection_add(c.sets[s], Cache_tag(c.setCount, a), bank,
                                   c.objs + 1)
    IN IF b # NullBlock THEN [c |-> c, b |-> b]
       ELSE IF bank = NoBank THEN [c |-> c, b |-> NullBlock]
       ELSE [c |-> [c EXCEPT !.objs = @ + 1, !.sets[s] = new.bc], b |-> new.b]
\* SetCollection::setCount
SetCollection_setCount(c) == c.setCount
\* SetCollection::blockCount
SetCollection_blockCount(c, set) == BlockCollection_count(c.sets[set])
\* SetCollection::block
SetCollection_block(c, set, id) == BlockCollection_block(c.sets[set], id)

\* Access::Access(Inst *, action_t, const Vector<const CacheBlock *>&): the
\* first and last sets are those of the first and last blocks
EnumAccess(act, blocks) ==
    [action |-> act, kind |-> "ENUM", set |-> 0, id |-> 0,
     fst |-> blocks[1].set, lst |-> blocks[Len(blocks)].set, bs |-> blocks]
\* a pointer read outside the vector of blocks
WildBlock == [tag |-> -2, set |-> -2, id |-> -2, bank |-> "", obj |-> -1]
\* Access::blockIn: the blocks the call may return; an index outside the
\* vector reads any pointer
Access_blockIn(a, set) ==
    IF Access_access(a, set)
    THEN LET f == a.fst
             l == a.lst
             i == IF f <= l \/ set >= f THEN set - f
                  ELSE Len(a.bs) - l + set - 1
         IN IF 0 <= i /\ i < Len(a.bs) THEN {a.bs[i + 1]}
            ELSE {a.bs[j] : j \in DOMAIN a.bs} \cup {NullBlock, WildBlock}
    ELSE {NullBlock}

\* no collection built yet
NoAB ==
    [stage |-> "off", cache |-> [present |-> FALSE, setCount |-> 2,
                                  policy |-> "LRU", wayCount |-> 1,
                                  writeAllocate |-> TRUE],
     coll |-> SetCollection(2), log |-> <<>>, accs |-> <<>>, warns |-> {},
     recorded |-> <<>>, failed |-> "", A |-> -1]

\* hard::Cache::replace_policy_t
Policies == {"LRU", "RANDOM", "FIFO", "MRU", "PLRU"}
\* actualAssoc: the associativity given to the analyses; the assertion fails
\* on FIFO, MRU and PLRU
actualAssoc(cache) ==
    CASE cache.policy = "RANDOM" -> [ok |-> TRUE, A |-> 1]
      [] cache.policy = "LRU" -> [ok |-> TRUE, A |-> cache.wayCount]
      [] OTHER -> [ok |-> FALSE, A |-> 0]

\* asDirect
asDirect(a) ==
    CASE a = "LOAD" -> "DIRECT_LOAD"
      [] a = "STORE" -> "DIRECT_STORE"
      [] OTHER -> a

\* the accesses made by CLPAccessBuilder::processBB for the semantic
\* instruction inst: of kind ANY, of one block, of a list of blocks
BuiltAny(inst, act) ==
    [inst |-> inst, action |-> act, kind |-> "ANY", set |-> 0, id |-> 0,
     fst |-> 0, lst |-> 0, bs |-> <<>>]
BuiltBlock(inst, act, b) ==
    [inst |-> inst, action |-> act, kind |-> "BLOCK", set |-> b.set, id |-> b.id,
     fst |-> 0, lst |-> 0, bs |-> <<b>>]
BuiltEnum(inst, act, bs) ==
    [inst |-> inst] @@ EnumAccess(act, bs)

\* the values clp::Value of an address: T, a constant, an unbounded set, or
\* the bounded set from l to h
ClpAll == [k |-> "all", l |-> 0, h |-> 0]
ClpConst(a) == [k |-> "const", l |-> a, h |-> a]
ClpInf == [k |-> "inf", l |-> 0, h |-> 0]
ClpRange(l, h) == [k |-> "range", l |-> l, h |-> h]

\* CLPAccessBuilder::processBB, the blocks of an ENUM access: the loop from
\* round(l) to round(h) by steps of blockSize
RECURSIVE EnumBlocks(_, _, _, _)
EnumBlocks(c, a, h, bs) ==
    LET r == SetCollection_add(c, a)
    IN IF a = Cache_round(h) THEN [c |-> r.c, bs |-> Append(bs, r.b)]
       ELSE EnumBlocks(r.c, a + BlockSize, h, Append(bs, r.b))

\* CLPAccessBuilder::processBB, the body of the loops for the semantic
\* instruction i: st holds the collection, the vector accs, the warnings
\* and the exception thrown
processBB_inst(st, cache, i, op) ==
    LET addr == op.addr
        onMiss == op.op = "STORE" /\ ~cache.writeAllocate
    IN IF op.op \notin {"LOAD", "STORE"} THEN st
       ELSE IF addr.k = "all"
       THEN [st EXCEPT !.accs = Append(@, BuiltAny(i, op.op))]
       ELSE IF addr.k = "const"
       THEN LET r == SetCollection_add(st.coll, addr.l)
                act == IF onMiss \/ r.b.id < 0 THEN asDirect(op.op) ELSE op.op
            IN IF r.b = NullBlock
               THEN [st EXCEPT !.coll = r.c, !.failed = "no memory bank"]
               ELSE [st EXCEPT !.coll = r.c,
                               !.accs = Append(@, BuiltBlock(i, act, r.b))]
       ELSE IF addr.k = "inf"
               \/ Cache_countBlocks(addr.l, addr.h) >= cache.setCount
       THEN [st EXCEPT !.accs = Append(@, BuiltAny(i, op.op))]
       ELSE LET rl == SetCollection_add(st.coll, addr.l)
                rh == SetCollection_add(rl.c, addr.h)
                lb == rl.b
                hb == rh.b
                spans == lb.bank # hb.bank
                direct == ~spans /\ ~Memory_get(addr.l).cached
                act == IF direct \/ onMiss THEN asDirect(op.op) ELSE op.op
                first == IF spans THEN <<BuiltAny(i, op.op)>> ELSE <<>>
                en == EnumBlocks(rh.c, Cache_round(addr.l), addr.h, <<>>)
            IN IF lb = NullBlock \/ hb = NullBlock
               THEN [st EXCEPT !.coll = rh.c, !.failed = "no memory bank"]
               ELSE IF lb = hb
               THEN [st EXCEPT !.coll = rh.c,
                               !.warns = IF spans THEN @ \cup {i} ELSE @,
                               !.accs = @ \o first \o <<BuiltBlock(i, act, lb)>>]
               ELSE [st EXCEPT !.coll = en.c,
                               !.warns = IF spans THEN @ \cup {i} ELSE @,
                               !.accs = @ \o first \o <<BuiltEnum(i, act, en.bs)>>]

\* CLPAccessBuilder::processBB, the loops over the semantic instructions of
\* the block, left by the first exception
RECURSIVE processBB_insts(_, _, _, _)
processBB_insts(st, cache, ops, i) ==
    IF i > Len(ops) \/ st.failed # "" THEN st
    ELSE processBB_insts(processBB_inst(st, cache, i, ops[i]), cache, ops, i + 1)

(***************************************************************************)
(* The sets an Analysis works on (Analysis::configure, Analysis::setup,    *)
(* Analysis::processWorkSpace).                                            *)
(***************************************************************************)
\* the analyzers made by Analysis::setup: the sets with blocks
Analysis_anas(n, counts) == {i \in 0 .. (n - 1) : counts[i] # 0}

\* Analysis::process(ws, set) running the fixed point of any set
Analysis_processSet_Always(st, anas, set) == [st EXCEPT !.ran = Append(@, set)]
\* Analysis::process(ws, set): the fixed point of the set runs when the set
\* has an analyzer; ran lists the sets whose fixed point ran
Analysis_processSet(st, anas, set) ==
    IF set \in anas THEN [st EXCEPT !.ran = Append(@, set)] ELSE st

\* Analysis::processWorkSpace, the loop over only_sets from position j; errs
\* lists the values a diagnostic was logged for
RECURSIVE processOnlySets(_, _, _, _, _)
processOnlySets(st, anas, n, only, j) ==
    IF j > Len(only) THEN st
    ELSE LET s == only[j]
         IN processOnlySets(IF s < 0 \/ s >= n
                            THEN [st EXCEPT !.errs = Append(@, s)]
                            ELSE Analysis_processSet(st, anas, s),
                            anas, n, only, j + 1)

\* Analysis::processWorkSpace, the loop over all the sets from set i
RECURSIVE processAllSets(_, _, _, _, _)
processAllSets(st, anas, n, counts, i) ==
    IF i >= n THEN st
    ELSE processAllSets(IF counts[i] # 0 THEN Analysis_processSet(st, anas, i)
                        ELSE st,
                        anas, n, counts, i + 1)

\* Analysis::processWorkSpace
Analysis_processWorkSpace(st, anas, n, counts, only) ==
    IF only # <<>> THEN processOnlySets(st, anas, n, only, 1)
    ELSE processAllSets(st, anas, n, counts, 0)

\* no Analysis made yet
NoWs ==
    [stage |-> "off", n |-> 2, counts |-> <<>>, only |-> <<>>, anas |-> {},
     ran |-> <<>>, errs |-> <<>>]

(***************************************************************************)
(* Actions.                                                                *)
(***************************************************************************)
Init ==
    /\ ws = NoWs
    /\ ab = NoAB
    /\ rel = NoRel
    /\ assoc \in 1 .. WayCount
    /\ dom \in Domains
    /\ g = LoopCFG
    /\ \E l1, l2 \in Lists(LoadAlphabet, MaxAcc) :
          accs = [v \in Nodes |-> IF v = 1 THEN l1 ELSE IF v = 2 THEN l2 ELSE <<>>]
    /\ out = [v \in Nodes |-> BOT]
    /\ q = NoQuery
    /\ run = NoRun
    /\ inp = NoInput
    /\ cat = NoCat
    /\ evts = NoEvents
    /\ alg = NoAlg
    /\ mp = NoMulti
    /\ bb = NoBB

\* one step of the fixed point: recompute the state after a node
Process(v) ==
    /\ run = NoRun
    /\ q = NoQuery
    /\ Unstable(v)
    /\ out' = [out EXCEPT ![v] = after_v(v)]
    /\ UNCHANGED <<assoc, dom, g, accs, q, run, catVars, alg, mp, bb, rel, ab, ws>>

\* AgeInfo::age(Edge *, const Access&, const CacheBlock *) on the k-th access
\* of the sink of e
AgeQuery(e, k) ==
    /\ run = NoRun
    /\ Stable
    /\ k \in 1 .. Len(accs[e[2]])
    /\ accs[e[2]][k].kind = "BLOCK" /\ accs[e[2]][k].set = S
    /\ q' = [e |-> e, k |-> k, st |-> at_e(e, k)]
    /\ UNCHANGED <<assoc, dom, g, accs, out, run, catVars, alg, mp, bb, rel, ab, ws>>

\* the program starts on a cache of any content
Start(c) ==
    /\ run = NoRun
    /\ q = NoQuery
    /\ Stable
    /\ run' = [pc |-> Entry, idx |-> 1, via |-> Entry, cache |-> c, loaded |-> {}]
    /\ UNCHANGED <<assoc, dom, g, accs, out, q, catVars, alg, mp, bb, rel, ab, ws>>

\* the machine performs the next access of the current block; x is the
\* block it addresses: the block of a BLOCK access, any block for ANY
Exec(x) ==
    /\ run.idx >= 1
    /\ run.idx <= Len(accs[run.pc])
    /\ LET a == accs[run.pc][run.idx]
       IN /\ CASE a.kind = "BLOCK" /\ a.set = S -> x = a.id
                [] a.kind = "BLOCK" -> x = Outside
                [] OTHER -> TRUE
          /\ run' = [run EXCEPT
                       !.idx = @ + 1,
                       !.cache = IF x = Outside THEN @ ELSE lru(@, x),
                       !.loaded = @ \cup ({x} \cap Ids)]
    /\ UNCHANGED <<assoc, dom, g, accs, out, q, catVars, alg, mp, bb, rel, ab, ws>>

\* the machine leaves the current block by edge e
Follow(e) ==
    /\ run.idx >= 1
    /\ run.idx > Len(accs[run.pc])
    /\ e \in OutEdges(run.pc)
    /\ run' = [run EXCEPT !.pc = e[2], !.via = e[1], !.idx = 1]
    /\ UNCHANGED <<assoc, dom, g, accs, out, q, catVars, alg, mp, bb, rel, ab, ws>>

Next ==
    \/ \E v \in Nodes : Process(v)
    \/ \E e \in g, k \in 1 .. MaxAcc : AgeQuery(e, k)
    \/ \E c \in Caches(assoc) : Start(c)
    \/ \E x \in Targets : Exec(x)
    \/ \E e \in g : Follow(e)

Spec == Init /\ [][Next]_vars

(***************************************************************************)
(* The fixed point alone, on several CFG shapes, purges included.          *)
(***************************************************************************)
InitFix ==
    /\ ws = NoWs
    /\ ab = NoAB
    /\ rel = NoRel
    /\ assoc \in 1 .. WayCount
    /\ dom \in Domains
    /\ g \in Shapes
    /\ \E l1 \in Lists(PurgeAlphabet, MaxAcc), l2 \in Lists(PurgeAlphabet, MaxAcc - 1) :
          accs = [v \in Nodes |-> IF v = 1 THEN l1 ELSE IF v = 2 THEN l2 ELSE <<>>]
    /\ out = [v \in Nodes |-> BOT]
    /\ q = NoQuery
    /\ run = NoRun
    /\ inp = NoInput
    /\ cat = NoCat
    /\ evts = NoEvents
    /\ alg = NoAlg
    /\ mp = NoMulti
    /\ bb = NoBB

NextFix == \E v \in Nodes : Process(v)

SpecFix == InitFix /\ [][NextFix]_vars

\* the solver goes on as long as the state of a node is not up to date
FairFix == SpecFix /\ \A v \in Nodes : WF_vars(Process(v))

(***************************************************************************)
(* The domain alone: states built from the entry state and BOT by          *)
(* transfers and joins, then one transfer applied to two of them.          *)
(***************************************************************************)
InitDom ==
    /\ ws = NoWs
    /\ ab = NoAB
    /\ rel = NoRel
    /\ assoc \in 1 .. WayCount
    /\ dom \in Domains
    /\ g = LoopCFG
    /\ accs = [v \in Nodes |-> <<>>]
    /\ out = [v \in Nodes |-> BOT]
    /\ q = NoQuery
    /\ run = NoRun
    /\ inp = NoInput
    /\ cat = NoCat
    /\ evts = NoEvents
    /\ alg = [NoAlg EXCEPT !.pc = "build",
                           !.s = <<entry(dom), entry(dom), entry(dom)>>]
    /\ mp = NoMulti
    /\ bb = NoBB

\* Domain::update(a, s_i)
Grow(i, a) ==
    /\ alg.pc = "build"
    /\ alg' = [alg EXCEPT !.s[i] = update(dom, a, @)]
    /\ UNCHANGED <<assoc, anaVars, catVars, mp, bb, rel, ab, ws>>

\* Domain::join(s_i, s_k)
Merge(i, k) ==
    /\ alg.pc = "build"
    /\ alg' = [alg EXCEPT !.s[i] = join(dom, @, alg.s[k])]
    /\ UNCHANGED <<assoc, anaVars, catVars, mp, bb, rel, ab, ws>>

\* Domain::bot()
Bottom(i) ==
    /\ alg.pc = "build"
    /\ alg' = [alg EXCEPT !.s[i] = BOT]
    /\ UNCHANGED <<assoc, anaVars, catVars, mp, bb, rel, ab, ws>>

\* one transfer on s_1 and on s_2, and their join
Apply(a) ==
    /\ alg.pc = "build"
    /\ alg' = [alg EXCEPT !.pc = "done", !.x = a,
                          !.r = <<update(dom, a, alg.s[1]), update(dom, a, alg.s[2])>>,
                          !.j = join(dom, alg.s[1], alg.s[2])]
    /\ UNCHANGED <<assoc, anaVars, catVars, mp, bb, rel, ab, ws>>

NextDom ==
    \/ \E i \in 1 .. 3, a \in DomAlphabet : Grow(i, a)
    \/ \E i \in 1 .. 3, k \in 1 .. 3 : Merge(i, k)
    \/ \E i \in 1 .. 3 : Bottom(i)
    \/ \E a \in DomAlphabet : Apply(a)

SpecDom == InitDom /\ [][NextDom]_vars

(***************************************************************************)
(* The two processors on one access along one edge.                        *)
(***************************************************************************)
InitCat ==
    /\ ws = NoWs
    /\ ab = NoAB
    /\ rel = NoRel
    /\ assoc \in 1 .. WayCount
    /\ dom = "MUST"
    /\ g = LoopCFG
    /\ accs = [v \in Nodes |-> <<>>]
    /\ out = [v \in Nodes |-> BOT]
    /\ q = NoQuery
    /\ run = NoRun
    /\ \E m \in BOOLEAN, p \in BOOLEAN, y \in BOOLEAN, k \in Kinds :
       \E act \in Actions, d \in 0 .. MaxDepth, cc \in CallSites,
          mu \in IF k = "ANY" THEN 0 .. MaxMulti ELSE {0},
          ts \in IF k = "ANY" THEN {0, 1} ELSE {0},
          bs \in BlockLists(k, m, p, y) :
            inp = [action |-> act, kind |-> k, multi |-> mu, tsize |-> ts,
                   blockSize |-> 8, blocks |-> bs,
                   mpers |-> m, pers |-> p, may |-> y,
                   depth |-> d, callCount |-> cc[1], callerDepth |-> cc[2],
                   callCount2 |-> 0, callerDepth2 |-> 0]
    /\ cat = NoCat
    /\ evts = NoEvents
    /\ alg = NoAlg
    /\ mp = NoMulti
    /\ bb = NoBB

\* CategoryBuilder::processBB on the access
Categorize ==
    /\ ~cat.done
    /\ LET r == Cat_processAccess(inp)
       IN cat' = [done |-> TRUE, c |-> r.c, h |-> r.h]
    /\ UNCHANGED <<assoc, anaVars, inp, evts, alg, mp, bb, rel, ab, ws>>

\* EventBuilder::processBB on the access
BuildEvents ==
    /\ ~evts.done
    /\ evts' = [done |-> TRUE, list |-> Evt_processAccess(inp)]
    /\ UNCHANGED <<assoc, anaVars, inp, cat, alg, mp, bb, rel, ab, ws>>

NextCat == Categorize \/ BuildEvents

SpecCat == InitCat /\ [][NextCat]_vars

(***************************************************************************)
(* The classifier on a block that MultiPERS finds persistent, the sink     *)
(* lying in a chain of calls: the CFG of the sink, its caller, the caller  *)
(* of its caller.                                                          *)
(***************************************************************************)
\* largest MultiPERS level answered in a chain of calls
MaxWalk == 4

InitWalk ==
    /\ ws = NoWs
    /\ ab = NoAB
    /\ rel = NoRel
    /\ assoc \in 1 .. WayCount
    /\ dom = "MUST"
    /\ g = LoopCFG
    /\ accs = [v \in Nodes |-> <<>>]
    /\ out = [v \in Nodes |-> BOT]
    /\ q = NoQuery
    /\ run = NoRun
    /\ \E act \in {"LOAD", "STORE"}, d \in 0 .. MaxDepth, cc \in CallSites,
          c2 \in CallerCallSites, y \in AgeSamples, bk \in Banks :
       \E n \in 0 .. Min(MaxWalk, d + cc[2] + c2[2] + 1) :
            inp = [action |-> act, kind |-> "BLOCK", multi |-> 0, tsize |-> 0,
                   blockSize |-> 8,
                   blocks |-> <<[must |-> y, may |-> 0, pers |-> AgeBOT,
                                 level |-> n, bank |-> bk]>>,
                   mpers |-> TRUE, pers |-> FALSE, may |-> FALSE,
                   depth |-> d, callCount |-> cc[1], callerDepth |-> cc[2],
                   callCount2 |-> c2[1], callerDepth2 |-> c2[2]]
    /\ cat = NoCat
    /\ evts = NoEvents
    /\ alg = NoAlg
    /\ mp = NoMulti
    /\ bb = NoBB

SpecWalk == InitWalk /\ [][NextCat]_vars

(***************************************************************************)
(* The queries of Analysis and the release of their results, as a client   *)
(* calls them on the set S once the fixed point is reached.                *)
(***************************************************************************)
InitRel ==
    /\ ws = NoWs
    /\ ab = NoAB
    /\ rel = [NoRel EXCEPT !.on = TRUE]
    /\ assoc \in 1 .. WayCount
    /\ dom \in Domains
    /\ g = LoopCFG
    /\ accs = [v \in Nodes |-> <<>>]
    /\ out = [v \in Nodes |-> BOT]
    /\ q = NoQuery
    /\ run = NoRun
    /\ inp = NoInput
    /\ cat = NoCat
    /\ evts = NoEvents
    /\ alg = NoAlg
    /\ mp = NoMulti
    /\ bb = NoBB

RelReady == rel.on /\ ~rel.failed

\* Analysis::before, Analysis::after (of an edge or of a block): the analyzer
\* returns the state r
Analysis_before(r) ==
    /\ RelReady
    /\ rel.held[r] < MaxHeld
    /\ rel' = [rel EXCEPT !.uses = uses_put(@, r, S),
                          !.held[r] = @ + 1,
                          !.last = [op |-> "before", s |-> r, held |-> rel.held[r]]]
    /\ UNCHANGED <<assoc, anaVars, catVars, alg, mp, bb, ab, ws>>

\* Analysis::at(Edge *, const Access&, int) when an access touching the set
\* comes before the looked one: s is the state given by before, ns the last
\* state given by the domain; s leaves uses, ns enters it and is returned
Analysis_at(s, ns) ==
    /\ RelReady
    /\ s # ns
    /\ rel.held[ns] = 0
    /\ rel.held[s] < MaxHeld
    /\ rel' = [rel EXCEPT !.uses = uses_put(uses_remove(uses_put(@, s, S), s), ns, S),
                          !.held[s] = @ + 1,
                          !.held[ns] = @ + 1,
                          !.last = [op |-> "at", s |-> ns, held |-> rel.held[ns]]]
    /\ UNCHANGED <<assoc, anaVars, catVars, alg, mp, bb, ab, ws>>

\* the loop of Analysis::at(Block *, const Access&, ai::State *, int): ns_j is
\* the state the domain returns for the j-th access of the block that comes
\* before the looked one and touches the set; cs is the state returned
RECURSIVE Analysis_replay(_, _, _, _)
Analysis_replay(st, s, list, j) ==
    IF j > Len(list) THEN st
    ELSE LET ns == list[j]
             cs == st.cs
             freed == IF cs # s /\ st.held[cs] > 0
                      THEN [st.held EXCEPT ![cs] = @ - 1] ELSE st.held
         IN Analysis_replay(
                IF ns = cs THEN st
                ELSE [uses |-> uses_put(uses_remove(st.uses, cs), ns, S),
                      held |-> [freed EXCEPT ![ns] = @ + 1],
                      cs |-> ns],
                s, list, j + 1)

\* the states the domain may return in one replay: update(a, s) is computed
\* anew for each earlier access, so the same state each time (s itself, BOT
\* or TOP) or a new state each time
Replays ==
    {<<>>} \cup {<<n>> : n \in StateRefs} \cup {<<n, n>> : n \in StateRefs}
        \cup {<<n, m>> : n, m \in StateRefs}

\* MUSTAnalysis::age, MultiPERSAnalysis::level (of an edge or of a block):
\* before gives s, at replays the earlier accesses, the state returned is
\* read and given to Analysis::release
Analysis_age(s, list) ==
    /\ RelReady
    /\ rel.held[s] < MaxHeld
    /\ \A j \in 1 .. Len(list) : list[j] # s => rel.held[list[j]] = 0
    /\ Len(list) = 2 /\ list[1] # list[2] => s \notin {list[1], list[2]}
    /\ LET st == Analysis_replay([uses |-> uses_put(rel.uses, s, S),
                                  held |-> [rel.held EXCEPT ![s] = @ + 1],
                                  cs |-> s], s, list, 1)
           known == uses_get(st.uses, st.cs) >= 0
       IN rel' = [rel EXCEPT !.uses = st.uses,
                             !.failed = ~known,
                             !.held = IF known /\ st.held[st.cs] > 0
                                      THEN [st.held EXCEPT ![st.cs] = @ - 1]
                                      ELSE st.held,
                             !.last = [op |-> "age", s |-> s, held |-> rel.held[s]]]
    /\ UNCHANGED <<assoc, anaVars, catVars, alg, mp, bb, ab, ws>>

\* Analysis::release: the assertion fails when uses does not know s, else the
\* release is passed to the analyzer of the set
Analysis_release(s) ==
    /\ RelReady
    /\ rel' = [rel EXCEPT !.failed = uses_get(rel.uses, s) < 0,
                          !.held[s] = IF uses_get(rel.uses, s) >= 0 /\ @ > 0
                                      THEN @ - 1 ELSE @,
                          !.last = [op |-> "release", s |-> s, held |-> rel.held[s]]]
    /\ UNCHANGED <<assoc, anaVars, catVars, alg, mp, bb, ab, ws>>

NextRel ==
    \/ \E r \in StateRefs : Analysis_before(r)
    \/ \E s, ns \in StateRefs : Analysis_at(s, ns)
    \/ \E s \in StateRefs : Analysis_release(s)
    \/ \E s \in StateRefs, list \in Replays : Analysis_age(s, list)

SpecRel == InitRel /\ [][NextRel]_vars

(***************************************************************************)
(* The event builder on a block: the accesses of its instructions, in the  *)
(* order of the instructions, and its in-edges.                            *)
(***************************************************************************)
\* most accesses of the block, most instructions, most in-edges
MaxBBAcc == 3
MaxInst == 2
MaxInEdges == 2

\* Cache::blockSize, a power of two
BlockSizes == {4, 8}

\* the accesses an instruction of the block may do: action, kind, size of
\* the accessed type (0 when it is not known)
BBAlphabet ==
    {<<"LOAD", "ANY", 0>>, <<"LOAD", "ANY", 1>>, <<"STORE", "ANY", 4>>,
     <<"LOAD", "BLOCK", 4>>, <<"DIRECT_LOAD", "ANY", 4>>, <<"PURGE", "ANY", 0>>}

\* the access of an instruction of multiCount mc, in a cache of block size bs
BBAccess(k, mc, bs) ==
    [NoInput EXCEPT
        !.action = k[1], !.kind = k[2], !.tsize = k[3], !.multi = mc,
        !.blockSize = bs,
        !.blocks = IF k[2] = "BLOCK"
                   THEN <<[must |-> A, may |-> 0, pers |-> AgeBOT, level |-> 0,
                           bank |-> CHOOSE b \in Banks : b.name = "fast"]>>
                   ELSE <<>>]

InitBB ==
    /\ ws = NoWs
    /\ ab = NoAB
    /\ rel = NoRel
    /\ assoc \in 1 .. WayCount
    /\ dom = "MUST"
    /\ g = LoopCFG
    /\ accs = [v \in Nodes |-> <<>>]
    /\ out = [v \in Nodes |-> BOT]
    /\ q = NoQuery
    /\ run = NoRun
    /\ inp = NoInput
    /\ cat = NoCat
    /\ evts = NoEvents
    /\ alg = NoAlg
    /\ mp = NoMulti
    /\ \E n \in 1 .. MaxBBAcc, bs \in BlockSizes, ne \in 1 .. MaxInEdges,
          basic \in BOOLEAN :
       \E ks \in [1 .. n -> BBAlphabet], is \in [1 .. n -> 1 .. MaxInst],
          mc \in [1 .. MaxInst -> 0 .. MaxMulti] :
            /\ \A i \in 1 .. (n - 1) : is[i] <= is[i + 1]
            /\ bb = [done |-> FALSE, basic |-> basic,
                     list |-> [i \in 1 .. n |->
                                 [inst |-> is[i],
                                  x |-> BBAccess(ks[i], mc[is[i]], bs)]],
                     edges |-> ne, events |-> [e \in 1 .. ne |-> <<>>]]

\* EventBuilder::processBB
ProcessBB ==
    /\ ~bb.done
    /\ bb' = [bb EXCEPT
                !.done = TRUE,
                !.events = IF bb.basic
                           THEN [e \in 1 .. bb.edges |->
                                   processBB_loop(bb.list, 1, 0, <<>>)]
                           ELSE @]
    /\ UNCHANGED <<assoc, anaVars, catVars, alg, mp, rel, ab, ws>>

SpecBB == InitBB /\ [][ProcessBB]_vars

(***************************************************************************)
(* MultiPERS under its client, the fixed-point solver.  The solver holds   *)
(* the state cur of the path it follows from the entry of the CFG and a    *)
(* state saved; it applies the transfer of a block to the state before the *)
(* block, the transfer of an edge to the state after its source (BOT when  *)
(* the source was not reached yet), and joins states.                      *)
(***************************************************************************)
\* MultiPERS::MultiPERS, then CFGAnalyzer on the entry: entry() is TOP
InitMulti ==
    /\ ws = NoWs
    /\ ab = NoAB
    /\ rel = NoRel
    /\ assoc \in 1 .. WayCount
    /\ dom = "PERS"
    /\ g = {}
    /\ \E l2, l4 \in MLists :
          accs = [v \in MNodes |-> CASE v = 2 -> l2 [] v \in {4, 5} -> l4
                                     [] OTHER -> <<>>]
    /\ out = [v \in Nodes |-> BOT]
    /\ q = NoQuery
    /\ run = NoRun
    /\ inp = NoInput
    /\ cat = NoCat
    /\ evts = NoEvents
    /\ alg = NoAlg
    /\ mp = [NoMulti EXCEPT
                !.heap = [a \in Addrs |->
                            CASE a = MBOT -> [live |-> TRUE, as |-> <<BOT>>]
                              [] a = MTOP -> [live |-> TRUE, as |-> <<TOP("PERS")>>]
                              [] OTHER -> NoObject],
                !.cur = MTOP, !.phase = "before"]
    /\ bb = NoBB

\* the solver after a call of the domain: what it keeps, and the collection
Kept(res, cur, saved, pos, phase, offpath, op, e) ==
    [Collect(res.m, {cur, saved}) EXCEPT
        !.cur = cur, !.saved = saved, !.pos = pos, !.phase = phase,
        !.offpath = offpath,
        !.last = [op |-> op, e |-> e, r |-> res.r, w |-> -1]]

Ready == mp.phase # "off" /\ ~mp.fault /\ HasRoom(mp) /\ Count(mp, mp.cur) <= MaxStack

\* CFGAnalyzer: the state after the block, from the state before it
BlockStep ==
    /\ Ready
    /\ mp.phase = "before"
    /\ LET res == MultiPERS_update_block(mp, mp.pos, mp.pos \in MSynth,
                                          accs[mp.pos], mp.cur)
       IN mp' = Kept(res, res.r, mp.saved, mp.pos, "after", mp.offpath,
                     "block", <<mp.pos, mp.pos>>)
    /\ UNCHANGED <<assoc, anaVars, catVars, alg, bb, rel, ab, ws>>

\* CFGAnalyzer: the state along an out-edge of the block
EdgeStep(u, v) ==
    /\ Ready
    /\ mp.phase = "after"
    /\ mp.pos = u
    /\ LET res == MultiPERS_update_edge(mp, EdgeOf(u, v), mp.cur)
       IN mp' = Kept(res, res.r, mp.saved, v, "before", mp.offpath,
                     "edge", <<u, v>>)
    /\ UNCHANGED <<assoc, anaVars, catVars, alg, bb, rel, ab, ws>>

\* CFGAnalyzer: the state along an in-edge whose source was not reached yet
Unvisited(u, v) ==
    /\ Ready
    /\ mp.phase = "before"
    /\ mp.pos = v
    /\ LET res == MultiPERS_update_edge(mp, EdgeOf(u, v), MBOT)
       IN mp' = Kept(res, mp.cur, res.r, mp.pos, mp.phase, TRUE,
                     "edge", <<u, v>>)
    /\ UNCHANGED <<assoc, anaVars, catVars, alg, bb, rel, ab, ws>>

\* the solver keeps the state after a block that calls
Save ==
    /\ Ready
    /\ mp.phase = "after"
    /\ mp.pos \in MSynth
    /\ mp.saved # mp.cur
    /\ mp' = [Collect(mp, {mp.cur}) EXCEPT !.saved = mp.cur, !.last = NoCall]
    /\ UNCHANGED <<assoc, anaVars, catVars, alg, bb, rel, ab, ws>>

\* CFGAnalyzer: the state after a call is the state at the exit of the
\* callee, the join of the states of its call sites
JoinSaved(swap) ==
    /\ Ready
    /\ mp.phase = "after"
    /\ mp.pos \in MSynth
    /\ LET s1 == IF swap THEN mp.saved ELSE mp.cur
           s2 == IF swap THEN mp.cur ELSE mp.saved
           res == MultiPERS_join(mp, s1, s2)
       IN mp' = Kept(res, res.r, mp.saved, mp.pos, mp.phase, TRUE,
                     "join", <<mp.pos, mp.pos>>)
    /\ UNCHANGED <<assoc, anaVars, catVars, alg, bb, rel, ab, ws>>

\* Analysis::at: the transfer of an access on the state of the path
Probe(a) ==
    /\ Ready
    /\ mp.phase = "before"
    /\ mp.pos = 5
    /\ LET res == MultiPERS_update(mp, a, mp.cur)
       IN mp' = Kept(res, mp.cur, res.r, mp.pos, mp.phase, TRUE,
                     "access", <<mp.pos, mp.pos>>)
    /\ UNCHANGED <<assoc, anaVars, catVars, alg, bb, rel, ab, ws>>

\* the state of the path is saved, then loaded again; the word written for
\* the depth is any word of the memory, or the write fails
SaveLoad(w) ==
    /\ Ready
    /\ mp.phase = "before"
    /\ mp.pos = 5
    /\ IF w = -1
       THEN mp' = [mp EXCEPT !.fault = TRUE,
                             !.last = [op |-> "load", e |-> <<5, 5>>, r |-> MBOT,
                                       w |-> -1]]
       ELSE LET res == MultiPERS_load(mp, MultiPERS_save(mp, mp.cur, w))
            IN mp' = [Kept(res, mp.cur, res.r, mp.pos, mp.phase, TRUE,
                           "load", <<5, 5>>) EXCEPT !.last.w = w]
    /\ UNCHANGED <<assoc, anaVars, catVars, alg, bb, rel, ab, ws>>

NextMulti ==
    \/ BlockStep
    \/ \E e \in MEdges : EdgeStep(e[1], e[2])
    \/ \E e \in MEdges : Unvisited(e[1], e[2])
    \/ Save
    \/ \E swap \in BOOLEAN : JoinSaved(swap)
    \/ Probe(BlockAccess("LOAD", S, 0))
    \/ \E w \in -1 .. MaxStack : SaveLoad(w)

SpecMulti == InitMulti /\ [][NextMulti]_vars

(***************************************************************************)
(* Claims on Analysis::at and on the soundness of the age queries.         *)
(***************************************************************************)
\* the state before the k-th access of a block entered in state s: the
\* transfers of the earlier accesses that touch S, applied in order
RECURSIVE replay(_, _, _, _, _)
replay(d, list, k, j, s) ==
    IF j = k THEN s
    ELSE replay(d, list, k, j + 1,
                IF Access_access(list[j], S) THEN update(d, list[j], s) ELSE s)

\* the machine is about to perform an access of a basic block
AtAccess == run.idx >= 1 /\ run.idx <= Len(accs[run.pc])
CurAcc == accs[run.pc][run.idx]
CurEdge == <<run.via, run.pc>>
AtBlockAccess == AtAccess /\ CurAcc.kind = "BLOCK" /\ CurAcc.set = S

\* C1: at(e, a_k, S) is the state obtained from before(e, S) by the updates
\* of exactly the earlier accesses a_j (j < k) that touch S, never a state
\* in which a_k has been applied.
C1_AtReplaysEarlierAccesses ==
    q # NoQuery =>
        equals(q.st, replay(dom, accs[q.e[2]], q.k, 1, before_e(q.e)))

\* C2: whenever MUST.age(e, a, b) < A, block b is in the concrete set right
\* before a executes, on every execution reaching a through e.
C2_MustAgeSound ==
    (dom = "MUST" /\ AtAccess) =>
        \A b \in Ids :
            age_e(CurEdge, run.idx, b) < A => InCache(run.cache, b)

\* the MAY state right before the current access: the MAY entry state carried
\* through the joins and transfers of the fixed point, then through the
\* transfers of the earlier accesses of the block
StateAtAccess == replay(dom, accs[run.pc], run.idx, 1, before_e(CurEdge))

\* C3: whenever the MAY age of block b is >= A at a program point, b is not
\* in the concrete set at that point, accesses of kind ANY included.
C3_MayAgeSound ==
    (dom = "MAY" /\ AtAccess) =>
        \A b \in Ids :
            StateAtAccess.age[b] >= A => ~InCache(run.cache, b)

\* C4: whenever PERS.age(e, a, b) < A, block b once loaded in the scope is
\* still in the concrete set when a executes (a misses at most once).
C4_PersAgeBound ==
    (dom = "PERS" /\ AtBlockAccess) =>
        ((age_e(CurEdge, run.idx, CurAcc.id) < A /\ CurAcc.id \in run.loaded)
            => InCache(run.cache, CurAcc.id))

(***************************************************************************)
(* Claims on the categories and the events.                                *)
(***************************************************************************)
\* a LOAD or STORE of kind BLOCK
BlockLoadStore == inp.kind = "BLOCK" /\ inp.action \in {"LOAD", "STORE"}
\* the rules of the classification, on the answers for block b
IsHit(b) == b.must < A
IsPersistent(b) ==
    ~IsHit(b) /\ ((inp.mpers /\ b.level # 0) \/ (inp.pers /\ b.pers < A))
IsMiss(b) == ~IsHit(b) /\ ~IsPersistent(b) /\ inp.may /\ b.may >= A
IsNotClassified(b) == ~IsHit(b) /\ ~IsPersistent(b) /\ ~IsMiss(b)
\* latency of the bank of the first block, worst time of the memory
BankTime ==
    IF inp.action = "LOAD" THEN inp.blocks[1].bank.readLatency
    ELSE inp.blocks[1].bank.writeLatency
WorstTime == IF inp.action = "LOAD" THEN worstReadTime ELSE worstWriteTime

\* C5: a LOAD/STORE BLOCK access gets exactly one of AH, PE, AM, NC, chosen
\* by the first rule that applies (MUST age < A: AH; MultiPERS level # 0: PE;
\* PERS age < A: PE; MAY age >= A: AM; otherwise NC), and an anchor is set
\* if and only if the category is PE.
C5_ClassifyOrder ==
    (cat.done /\ BlockLoadStore) =>
        LET b == inp.blocks[1]
        IN /\ cat.c = (IF IsHit(b) THEN "AH"
                       ELSE IF IsPersistent(b) THEN "PE"
                       ELSE IF IsMiss(b) THEN "AM" ELSE "NC")
           /\ (cat.h # NoBlock) <=> (cat.c = "PE")

\* a block persistent by PERS only, with MAY saying it is out of the cache
C5_Witness ==
    /\ cat.done /\ BlockLoadStore
    /\ inp.mpers /\ inp.blocks[1].level = 0
    /\ inp.pers /\ inp.blocks[1].pers < A
    /\ inp.may /\ inp.blocks[1].may >= A
    /\ cat.c = "PE" /\ cat.h.kind = "header"

\* C6: the event of an Always-Miss LOAD/STORE BLOCK access (MUST age >= A,
\* not persistent, MAY available with age >= A) has occurrence ALWAYS.
C6_AlwaysMissOccurrence ==
    (evts.done /\ BlockLoadStore /\ IsMiss(inp.blocks[1])) =>
        /\ Len(evts.list) = 1
        /\ evts.list[1].occ = "ALWAYS"

\* C7: for a LOAD/STORE BLOCK access, category AH gives an event NEVER with
\* an empty bound, PE with anchor h gives SOMETIMES with the bound 1 * x_h,
\* NC gives SOMETIMES with an empty bound.
C7_EventOfCategory ==
    (cat.done /\ evts.done /\ BlockLoadStore) =>
        /\ Len(evts.list) = 1
        /\ cat.c = "AH" =>
              evts.list[1].occ = "NEVER" /\ evts.list[1].xs = <<>>
        /\ cat.c = "PE" =>
              /\ evts.list[1].occ = "SOMETIMES"
              /\ evts.list[1].xs = <<[coef |-> 1, var |-> cat.h]>>
        /\ cat.c = "NC" =>
              evts.list[1].occ = "SOMETIMES" /\ evts.list[1].xs = <<>>

\* a PERS-persistent access in a loop nested in another loop
C7_Witness ==
    /\ cat.done /\ evts.done /\ BlockLoadStore
    /\ cat.c = "PE" /\ inp.blocks[1].level = 0 /\ inp.depth = MaxDepth
    /\ evts.list[1].xs = <<[coef |-> 1, var |-> header(LoopOf("callee", 1))]>>

\* C8: the event of a LOAD/STORE access costs the latency of the accessed
\* bank when the access is AH and the worst time of the memory when it is
\* PE, AM or NC, for BLOCK and ENUM accesses as for ANY and RANGE.
C8_CostByCategory ==
    (cat.done /\ evts.done /\ inp.action \in {"LOAD", "STORE"}) =>
        \A i \in 1 .. Len(evts.list) :
            evts.list[i].cost = IF cat.c = "AH" THEN BankTime ELSE WorstTime

\* C8 amended: the event of a BLOCK access costs the latency of the bank of
\* the block whatever the category; an ENUM access costs the latency of the
\* bank of its first block unless one of its blocks is not classified; in
\* that case, as for every ANY or RANGE access, the cost is the worst time
\* of the memory.
C8_CostByKind ==
    (evts.done /\ inp.action \in {"LOAD", "STORE"}) =>
        \A i \in 1 .. Len(evts.list) :
            evts.list[i].cost =
                IF inp.kind = "BLOCK" THEN BankTime
                ELSE IF inp.kind = "ENUM"
                        /\ \A j \in 1 .. Len(inp.blocks) : ~IsNotClassified(inp.blocks[j])
                     THEN BankTime
                ELSE WorstTime

\* a persistent load in the fast bank: it costs less than the worst time
C8_Witness ==
    /\ cat.done /\ evts.done /\ inp.kind = "BLOCK" /\ inp.action = "LOAD"
    /\ cat.c = "PE"
    /\ evts.list[1].cost = inp.blocks[1].bank.readLatency
    /\ evts.list[1].cost < worstReadTime

\* C9: for each domain and each CFG the fixed-point iteration eventually
\* reaches a state in which no node state changes.
C9_Terminates == <>Stable

\* s1 is below s2 in domain d
Below(d, s1, s2) == equals(join(d, s1, s2), s2)

\* C10: a transfer keeps the order (s1 below s2 gives update(x, s1) below
\* update(x, s2)), and join(s1, s2) is an upper bound of s1 and s2 that
\* is below every other upper bound.
C10_MonotoneAndLub ==
    alg.pc = "done" =>
        /\ Below(dom, alg.s[1], alg.s[2]) => Below(dom, alg.r[1], alg.r[2])
        /\ Below(dom, alg.s[1], alg.j) /\ Below(dom, alg.s[2], alg.j)
        /\ (Below(dom, alg.s[1], alg.s[3]) /\ Below(dom, alg.s[2], alg.s[3]))
              => Below(dom, alg.j, alg.s[3])

(***************************************************************************)
(* Claims on the algebra of join.                                          *)
(***************************************************************************)
\* C11: join is commutative and associative and has BOT as identity, the
\* equality being the equals of the domain.
C11_JoinAlgebra ==
    alg.pc = "build" =>
        LET s1 == alg.s[1]
            s2 == alg.s[2]
            s3 == alg.s[3]
        IN /\ equals(join(dom, s1, s2), join(dom, s2, s1))
           /\ equals(join(dom, join(dom, s1, s2), s3),
                     join(dom, s1, join(dom, s2, s3)))
           /\ equals(join(dom, BOT, s1), s1)
           /\ equals(join(dom, s1, BOT), s1)

(***************************************************************************)
(* Claims on the accesses of kind ENUM.                                    *)
(***************************************************************************)
\* a LOAD or STORE of kind ENUM
EnumLoadStore == inp.kind = "ENUM" /\ inp.action \in {"LOAD", "STORE"}
\* the category of one block by the rules of the classification
BlockCategory(b) ==
    IF IsHit(b) THEN "AH"
    ELSE IF IsPersistent(b) THEN "PE"
    ELSE IF IsMiss(b) THEN "AM" ELSE "NC"
\* every listed block has the category of the first one
BlocksAgree ==
    \A i \in 1 .. Len(inp.blocks) :
        BlockCategory(inp.blocks[i]) = BlockCategory(inp.blocks[1])

\* C12: the category of an ENUM access is the common category of its blocks
\* when they all agree, and NC exactly when they disagree.
C12_EnumCategory ==
    (cat.done /\ EnumLoadStore) =>
        cat.c = (IF BlocksAgree THEN BlockCategory(inp.blocks[1]) ELSE "NC")

\* two blocks, an always-hit one and a persistent one: degraded to NC
C12_Witness ==
    /\ cat.done /\ EnumLoadStore /\ Len(inp.blocks) = 2
    /\ BlockCategory(inp.blocks[1]) = "AH"
    /\ BlockCategory(inp.blocks[2]) = "PE"
    /\ cat.c = "NC"

\* position of an anchor in the chain of loops around the sink: the loops of
\* the CFG of the sink lie inside the loop of its call site
AnchorRank(h) == (IF h.cfg = "callee" THEN MaxDepth + 1 ELSE 0) + h.depth
\* the anchors computed for the blocks of the access
BlockAnchors ==
    {CategoryBuilder_classify(inp, inp.blocks[i])[2] : i \in 1 .. Len(inp.blocks)}

\* C13: for an ENUM access of category PE, RELATIVE_TO is the innermost of
\* the anchors of its blocks, whatever the order of the blocks.
C13_EnumInnermostAnchor ==
    (cat.done /\ EnumLoadStore /\ cat.c = "PE") =>
        /\ cat.h \in BlockAnchors
        /\ \A h \in BlockAnchors : AnchorRank(h) <= AnchorRank(cat.h)

(***************************************************************************)
(* Claim on the scope of a block persistent by MultiPERS.                  *)
(***************************************************************************)
\* number of callers of the CFG of loop l, and the loop around its only call
CallersOf(x, l) ==
    CASE l.cfg = "callee" -> x.callCount
      [] l.cfg = "caller" -> x.callCount2
      [] OTHER -> 0
CallSiteLoop(x, l) ==
    IF l.cfg = "callee" THEN LoopOf("caller", x.callerDepth)
    ELSE LoopOf("root", x.callerDepth2)

\* the walk of n - 1 levels outward: the parent of a loop, or from the top
\* loop of a CFG with exactly one caller the loop of its call site
RECURSIVE ScopeWalk(_, _, _, _)
ScopeWalk(x, l, i, n) ==
    IF i >= n THEN l
    ELSE IF ~isTop(l) THEN ScopeWalk(x, parent(l), i + 1, n)
    ELSE IF CallersOf(x, l) = 1 THEN ScopeWalk(x, CallSiteLoop(x, l), i + 1, n)
    ELSE l

\* C14: when MUST age >= A and the MultiPERS level is n # 0, the access is PE
\* and its anchor is the header of the loop reached by walking n - 1 levels
\* outward from the loop of the sink, crossing from the top loop of a CFG to
\* the loop of its call site only if that CFG has exactly one caller; the
\* anchor of a top loop is the successor of the entry of its CFG.
C14_MultiPersScope ==
    (cat.done /\ BlockLoadStore /\ inp.mpers
        /\ inp.blocks[1].must >= A /\ inp.blocks[1].level # 0) =>
        /\ cat.c = "PE"
        /\ cat.h = anchor(ScopeWalk(inp, LoopOf("callee", inp.depth), 1,
                                    inp.blocks[1].level))


(***************************************************************************)
(* Claims on MultiPERS.                                                    *)
(***************************************************************************)
\* a step of the solver along an edge of the path it follows from the entry,
\* nothing but transfers of edges and of blocks having been called
PathEdge == mp'.last.op = "edge" /\ ~mp'.offpath
\* the edge of the step, the levels given to the transfer and those it returns
StepEdge == EdgeOf(mp'.last.e[1], mp'.last.e[2])
LevelsIn == Levels(mp, mp.cur)
LevelsOut == Levels(mp', mp'.cur)
\* the level of a loop just entered: no block seen
FreshLevel == entry("PERS")

\* the state of the path has one level per loop around the block, and one more
DepthOnPath == ~mp'.offpath => Count(mp', mp'.cur) = MDepth(mp'.pos) + 1
\* an edge that enters a loop and leaves none
EntryEdgeStep ==
    PathEdge /\ StepEdge.entry /\ ~StepEdge.exit
        => LevelsOut = Append(LevelsIn, FreshLevel)
\* an edge that leaves loops and enters none
ExitEdgeStep ==
    PathEdge /\ StepEdge.exit /\ ~StepEdge.entry
        => /\ StepEdge.sourceDepth - StepEdge.sinkDepth <= Len(LevelsIn)
           /\ LevelsOut = SubSeq(LevelsIn, 1, Len(LevelsIn) -
                                   (StepEdge.sourceDepth - StepEdge.sinkDepth))
\* an edge that leaves a loop and enters another
ExitEntryEdgeStep ==
    PathEdge /\ StepEdge.exit /\ StepEdge.entry
        => /\ Len(LevelsOut) = StepEdge.sinkDepth + 1
           /\ LevelsOut[Len(LevelsOut)] = FreshLevel
           /\ SubSeq(LevelsOut, 1, StepEdge.sinkDepth)
                  = SubSeq(LevelsIn, 1, StepEdge.sinkDepth)
\* an edge of the CFG that neither enters nor leaves a loop nor returns of a call
PlainEdgeStep ==
    PathEdge /\ ~StepEdge.exit /\ ~StepEdge.entry /\ ~StepEdge.synth
        => LevelsOut = LevelsIn

\* C15: along a path from the entry the MultiPERS state has loop depth + 1
\* levels; a loop-entry edge adds one fresh level on top and keeps the lower
\* ones; a loop-exit edge removes the innermost levels of the loops left and
\* keeps the others; an edge that leaves a loop and enters another gives a
\* fresh innermost level; any other edge inside the CFG keeps the state
C15_LoopEdges ==
    [][DepthOnPath /\ EntryEdgeStep /\ ExitEdgeStep /\ ExitEntryEdgeStep
         /\ PlainEdgeStep]_vars

\* the last call was the transfer of an edge that leaves a synthetic block
SynthEdgeCall == mp.last.op = "edge" /\ mp.last.e[1] \in MSynth /\ ~mp.fault
\* the depth MultiPERS::update(Block *) recorded for the source of that edge
RecordedDepth == mp.ds[mp.last.e[1]]

\* C16: the transfer of an edge leaving a synthetic block v returns a state
\* of exactly the depth recorded when the transfer of v last saw a state that
\* is not BOT, and BOT when no depth was recorded
C16_CallReturnDepth ==
    SynthEdgeCall =>
        IF RecordedDepth = -1 THEN mp.last.r = MBOT
        ELSE Count(mp, mp.last.r) = RecordedDepth

\* the MultiACS objects that exist before and after a step: BOT, TOP and
\* the states the domain returned and its client still holds
Surviving == {a \in Addrs : mp.heap[a].live /\ mp'.heap[a].live}

\* C20: no transfer of MultiPERS (update of an edge, of a block, of an
\* access, join) modifies a state passed to it or a state it returned earlier
C20_StatesImmutable ==
    [][\A a \in Surviving : mp'.heap[a] = mp.heap[a]]_vars

(***************************************************************************)
(* Claims on the events of a block.                                        *)
(***************************************************************************)
\* least c with c * d >= n
Ceil(n, d) == CHOOSE c \in 0 .. n : c * d >= n /\ (c - 1) * d < n
\* the first access of instruction i that is a LOAD or STORE of kind ANY, 0
\* when it has none
FirstAny(i) ==
    LET ks == {k \in 1 .. Len(bb.list) :
                 /\ bb.list[k].inst = i
                 /\ bb.list[k].x.action \in {"LOAD", "STORE"}
                 /\ bb.list[k].x.kind = "ANY"}
    IN IF ks = {} THEN 0 ELSE CHOOSE k \in ks : \A j \in ks : k <= j
\* the multi-access instructions of the block with such an access
MultiAny == {i \in 1 .. MaxInst : FirstAny(i) # 0 /\ bb.list[FirstAny(i)].x.multi > 0}
\* the events of edge e made for the accesses of instruction i from its
\* k-th access on
EventsFrom(e, i, k) ==
    SelectSeq(bb.events[e], LAMBDA r : bb.list[r.a].inst = i /\ r.a >= k)
\* the count of events of the claim for the access x
MultiEventCount(x) ==
    Ceil(x.multi * (IF x.tsize = 0 THEN 4 ELSE x.tsize), x.blockSize) + 1

DirectBlock == inp.action \in {"DIRECT_LOAD", "DIRECT_STORE"} /\ inp.kind = "BLOCK"
\* the latency of the bank of the block for the direction of the access
DirectLatency ==
    IF inp.action = "DIRECT_LOAD" THEN inp.blocks[1].bank.readLatency
    ELSE inp.blocks[1].bank.writeLatency

EnumClasses == [i \in 1 .. Len(inp.blocks) |-> EventBuilder_classify(inp, inp.blocks[i])]
\* some block may miss any number of times
EnumUnbounded ==
    \E i \in 1 .. Len(inp.blocks) : EnumClasses[i] = <<"SOMETIMES", NoBlock>>
\* bitwise OR of the codes of the occurrences of the blocks
EnumOccCode ==
    (IF \E i \in 1 .. Len(inp.blocks) : OccCode(EnumClasses[i][1]) % 2 = 1
     THEN 1 ELSE 0)
      + (IF \E i \in 1 .. Len(inp.blocks) : OccCode(EnumClasses[i][1]) >= 2
         THEN 2 ELSE 0)
\* sum of the coefficients of x_h in the bound xs
RECURSIVE CoefSum(_, _)
CoefSum(xs, h) ==
    IF xs = <<>> THEN 0
    ELSE (IF Head(xs).var = h THEN Head(xs).coef ELSE 0) + CoefSum(Tail(xs), h)
\* the scopes the blocks and the bound speak of
EnumScopes(xs) ==
    {EnumClasses[i][2] : i \in 1 .. Len(inp.blocks)}
        \cup {xs[k].var : k \in 1 .. Len(xs)}

\* C19: a LOAD or STORE of kind ENUM gets one event; when a block classifies
\* SOMETIMES without scope the event is SOMETIMES with an empty bound;
\* otherwise its occurrence is the bitwise OR of the occurrences of the blocks
\* and its bound counts each scope h once per block that has scope h
C19_EnumEvent ==
    EnumLoadStore /\ evts.done =>
        /\ Len(evts.list) = 1
        /\ IF EnumUnbounded
           THEN evts.list[1].occ = "SOMETIMES" /\ evts.list[1].xs = <<>>
           ELSE /\ OccCode(evts.list[1].occ) = EnumOccCode
                /\ \A h \in EnumScopes(evts.list[1].xs) :
                      CoefSum(evts.list[1].xs, h) =
                        IF h = NoBlock THEN 0
                        ELSE Cardinality({i \in 1 .. Len(inp.blocks) :
                                            EnumClasses[i][2] = h})

\* two blocks persistent in the same scope
C19_Witness ==
    /\ EnumLoadStore /\ evts.done
    /\ Len(inp.blocks) = 2
    /\ EnumClasses[1][2] # NoBlock
    /\ EnumClasses[2][2] = EnumClasses[1][2]
    /\ evts.list[1].occ = "SOMETIMES"
    /\ CoefSum(evts.list[1].xs, EnumClasses[1][2]) = 2

\* a block always in the cache and a block persistent in a scope
C19_WitnessMixed ==
    /\ EnumLoadStore /\ evts.done
    /\ Len(inp.blocks) = 2
    /\ EnumClasses[1] = <<"NEVER", NoBlock>>
    /\ EnumClasses[2][2] # NoBlock
    /\ evts.list[1].occ = "SOMETIMES"
    /\ Len(evts.list[1].xs) = 1

(***************************************************************************)
(* Claims on the release of the states.                                    *)
(***************************************************************************)
\* C21: Analysis::release(s) is rejected when s was never handed out by
\* before, after or at, and when s was already released as many times as it
\* was handed out
C21_ReleaseRejected ==
    rel.last.op = "release" /\ rel.last.held = 0 => rel.failed

(***************************************************************************)
(* Claims on the saving and the loading of the states.                     *)
(***************************************************************************)
\* the states of the domain at hand: those under construction and the
\* sentinels BOT, TOP and EMPTY
KnownStates == {alg.s[i] : i \in 1 .. 3} \cup {BOT, TOP(dom), EMPTY(dom)}
Reloaded(s) == ACSDomain_load(ACSDomain_save(s))

\* C22: for every state s of MUST, MAY or PERS, BOT, TOP and EMPTY included,
\* load(save(s)) equals s and equals no state that s does not equal
C22_AcsRoundTrip ==
    alg.pc = "build" =>
        \A s \in KnownStates :
            /\ equals(Reloaded(s), s)
            /\ \A u \in KnownStates : equals(Reloaded(s), u) <=> equals(s, u)

\* the last call saved the state of the path and loaded it again
Reload == mp.last.op = "load"

\* C23: save of a MultiACS writes its depth, then one blob per level, and
\* load of that output gives a stack of the same depth whose levels are
\* pairwise equal to those of the saved one
C23_MultiRoundTrip ==
    Reload =>
        /\ ~mp.fault
        /\ mp.last.w = Count(mp, mp.cur)
        /\ Count(mp, mp.last.r) = Count(mp, mp.cur)
        /\ \A i \in 1 .. Count(mp, mp.cur) :
              equals(Levels(mp, mp.last.r)[i], Levels(mp, mp.cur)[i])

(***************************************************************************)
(* Claims on the purge.                                                    *)
(***************************************************************************)
\* the transfer of the PURGE of block b of the set
PurgeOf(b, s) == update(dom, BlockAccess("PURGE", S, b), s)

\* C24: in MUST, MAY and PERS, the PURGE of a block b applied twice gives a
\* state equal to the PURGE of b applied once, also when the first purge
\* makes every age equal to A
C24_PurgeIdempotent ==
    alg.pc = "build" =>
        \A i \in 1 .. 3 : \A b \in Ids :
            equals(PurgeOf(b, PurgeOf(b, alg.s[i])), PurgeOf(b, alg.s[i]))

\* the same on the state of the path of MultiPERS, level by level
PurgeTwiceMulti ==
    mp.phase # "off" /\ ~mp.fault =>
        \A b \in Ids :
            LET a == BlockAccess("PURGE", S, b)
                once == MultiPERS_update(Collect(mp, {mp.cur}), a, mp.cur)
                twice == MultiPERS_update(Collect(once.m, {once.r}), a, once.r)
            IN MultiPERS_equals(twice.m, twice.r, once.r)

(***************************************************************************)
(* Claims on the MAY domain.                                               *)
(***************************************************************************)
AllAges(v) == [i \in Ids |-> v]
\* a PURGE of kind ANY or RANGE was applied to two states
PurgedAll ==
    alg.pc = "done" /\ alg.x.action = "PURGE" /\ alg.x.kind \in {"ANY", "RANGE"}

\* C25: in MAY the entry state is the all-zero vector and TOP the all-A
\* vector, two different states; a PURGE of kind ANY or RANGE, which
\* returns TOP, returns the all-A vector
C25_MayTop ==
    dom = "MAY" =>
        /\ entry(dom).age = AllAges(0)
        /\ TOP(dom).age = AllAges(A)
        /\ ~equals(entry(dom), TOP(dom))
        /\ PurgedAll =>
              \A i \in 1 .. 2 : ~alg.s[i].bot => alg.r[i].age = AllAges(A)

(***************************************************************************)
(* The cache index model alone: SetCollection::add called on any addresses *)
(* of the platform.                                                        *)
(***************************************************************************)
\* most calls of SetCollection::add
MaxAdds == 3

InitColl ==
    /\ ws = NoWs
    /\ \E n \in SetCounts :
           ab = [NoAB EXCEPT !.stage = "coll", !.cache.present = TRUE,
                             !.cache.setCount = n, !.coll = SetCollection(n)]
    /\ rel = NoRel
    /\ assoc = WayCount
    /\ dom = "MUST"
    /\ g = LoopCFG
    /\ accs = [v \in Nodes |-> <<>>]
    /\ out = [v \in Nodes |-> BOT]
    /\ q = NoQuery
    /\ run = NoRun
    /\ inp = NoInput
    /\ cat = NoCat
    /\ evts = NoEvents
    /\ alg = NoAlg
    /\ mp = NoMulti
    /\ bb = NoBB

\* SetCollection::add(a); the log keeps the address, the block returned and
\* whether the collection changed
Add(a) ==
    /\ ab.stage = "coll"
    /\ Len(ab.log) < MaxAdds
    /\ LET r == SetCollection_add(ab.coll, a)
       IN ab' = [ab EXCEPT !.coll = r.c,
                           !.log = Append(@, [a |-> a, b |-> r.b,
                                              changed |-> r.c # ab.coll])]
    /\ UNCHANGED <<assoc, anaVars, catVars, alg, mp, bb, rel, ws>>

NextColl == \E a \in Addresses : Add(a)

SpecColl == InitColl /\ [][NextColl]_vars

(***************************************************************************)
(* Claims on the cache index model.                                        *)
(***************************************************************************)
SameBlock(a1, a2) == Cache_block(a1) = Cache_block(a2)
\* the blocks registered in a set
Registered(c, set) == {c.sets[set].map[t] : t \in Tags} \ {NullBlock}
\* those of a cached bank
CachedIn(c, set) ==
    {b \in Registered(c, set) : \E k \in Memory_banks : k.name = b.bank /\ k.cached}
SetsOf(c) == 0 .. (SetCollection_setCount(c) - 1)

\* C26: after any calls of SetCollection::add, two addresses of the same
\* block got the same CacheBlock and no second one was created; an address
\* no bank backs got null and registered nothing; in each set the blocks of
\* cached banks have the distinct ids 0 .. blockCount(set) - 1 and
\* block(set, id) has the id asked; the blocks of non-cached banks have id
\* -1 and are not counted; at(a) gives a block exactly when it was added
C26_BlockIndex ==
    ab.stage = "coll" =>
        LET c == ab.coll
            log == ab.log
            Calls == DOMAIN log
        IN /\ \A i, j \in Calls :
                  SameBlock(log[i].a, log[j].a) => log[i].b = log[j].b
           /\ c.objs = Cardinality({Cache_block(log[i].a) :
                                       i \in {k \in Calls : log[k].b # NullBlock}})
           /\ \A i \in Calls :
                  Memory_get(log[i].a) = NoBank =>
                      log[i].b = NullBlock /\ ~log[i].changed
           /\ \A set \in SetsOf(c) :
                  LET n == SetCollection_blockCount(c, set)
                  IN /\ {b.id : b \in CachedIn(c, set)} = 0 .. (n - 1)
                     /\ Cardinality(CachedIn(c, set)) = n
                     /\ \A id \in 0 .. (n - 1) :
                            /\ SetCollection_block(c, set, id).id = id
                            /\ SetCollection_block(c, set, id) \in CachedIn(c, set)
                     /\ \A b \in Registered(c, set) \ CachedIn(c, set) : b.id = -1
           /\ \A a \in Addresses :
                  LET b == SetCollection_at(c, a)
                  IN /\ b # NullBlock <=>
                            \E i \in Calls : SameBlock(a, log[i].a) /\ log[i].b # NullBlock
                     /\ \A i \in Calls : SameBlock(a, log[i].a) => b = log[i].b

\* two addresses of one block were added after another cached block of the
\* same set
C26_Witness ==
    /\ ab.stage = "coll"
    /\ Len(ab.log) = 3
    /\ ab.log[2].a # ab.log[3].a
    /\ SameBlock(ab.log[2].a, ab.log[3].a)
    /\ \E set \in SetsOf(ab.coll) : SetCollection_blockCount(ab.coll, set) = 2

\* blocks of the three kinds of addresses were asked
C26_WitnessBanks ==
    /\ ab.stage = "coll"
    /\ Len(ab.log) = 3
    /\ Memory_get(ab.log[1].a) = NoBank
    /\ ~Memory_get(ab.log[2].a).cached /\ ab.log[2].b # NullBlock
    /\ Memory_get(ab.log[3].a).cached

(***************************************************************************)
(* The set queries of an access: an ENUM access made of consecutive cache  *)
(* blocks of the collection, or a RANGE access, asked about each set.      *)
(***************************************************************************)
\* the blocks got from SetCollection::add for the k cache blocks from
\* block number b0, with the collection after them
RECURSIVE AddLines(_, _, _, _)
AddLines(c, b0, k, bs) ==
    IF k = 0 THEN [c |-> c, bs |-> bs]
    ELSE LET r == SetCollection_add(c, b0 * BlockSize)
         IN AddLines(r.c, b0 + 1, k - 1, Append(bs, r.b))

\* the block numbers some bank backs
BackedLines == {Cache_block(a) : a \in {x \in Addresses : Memory_get(x) # NoBank}}

InitAcc ==
    /\ ws = NoWs
    /\ \E n \in SetCounts :
           \/ \E b0 \in BackedLines, k \in 1 .. n :
                  /\ b0 + k - 1 \in BackedLines
                  /\ LET r == AddLines(SetCollection(n), b0, k, <<>>)
                     IN ab = [NoAB EXCEPT !.stage = "query", !.cache.present = TRUE,
                                          !.cache.setCount = n, !.coll = r.c,
                                          !.accs = <<EnumAccess("LOAD", r.bs)>>]
           \/ \E f, l \in 0 .. (n - 1) :
                  ab = [NoAB EXCEPT !.stage = "query", !.cache.present = TRUE,
                                    !.cache.setCount = n, !.coll = SetCollection(n),
                                    !.accs = <<RangeAccess("LOAD", f, l)>>]
    /\ rel = NoRel
    /\ assoc = WayCount
    /\ dom = "MUST"
    /\ g = LoopCFG
    /\ accs = [v \in Nodes |-> <<>>]
    /\ out = [v \in Nodes |-> BOT]
    /\ q = NoQuery
    /\ run = NoRun
    /\ inp = NoInput
    /\ cat = NoCat
    /\ evts = NoEvents
    /\ alg = NoAlg
    /\ mp = NoMulti
    /\ bb = NoBB

\* Access::access(set), and Access::blockIn(set) on an ENUM access; the log
\* keeps the last query and its answers
QuerySet(set) ==
    /\ ab.stage = "query"
    /\ LET x == ab.accs[1]
       IN \E b \in IF x.kind = "ENUM" THEN Access_blockIn(x, set) ELSE {NullBlock} :
              ab' = [ab EXCEPT !.log = <<[set |-> set, r |-> Access_access(x, set),
                                          b |-> b]>>]
    /\ UNCHANGED <<assoc, anaVars, catVars, alg, mp, bb, rel, ws>>

NextAcc == \E set \in 0 .. (ab.cache.setCount - 1) : QuerySet(set)

SpecAcc == InitAcc /\ [][NextAcc]_vars

(***************************************************************************)
(* Claims on the set queries of an access.                                 *)
(***************************************************************************)
\* s lies in [f, l] taken modulo n
InArc(f, l, s, n) == (s - f) % n <= (l - f) % n

\* C27: for an ENUM access of consecutive cache blocks or a RANGE access,
\* with first set f and last set l, access(s) is true exactly when s lies
\* in [f, l] modulo setCount (only s = f when f = l); on ENUM blockIn(s) is
\* then the listed block of set s, and null when access(s) is false
C27_SetQueries ==
    ab.stage = "query" /\ ab.log # <<>> =>
        LET x == ab.accs[1]
            qy == ab.log[1]
        IN /\ qy.r <=> InArc(x.fst, x.lst, qy.set, ab.cache.setCount)
           /\ x.kind = "ENUM" =>
                  IF qy.r THEN \E i \in DOMAIN x.bs : x.bs[i] = qy.b /\ qy.b.set = qy.set
                  ELSE qy.b = NullBlock

(***************************************************************************)
(* The access builder before an analysis: CLPAccessBuilder::setup, then    *)
(* CLPAccessBuilder::processBB on a block, then the set-up of an analysis  *)
(* (actualAssoc) and its fixed point.                                      *)
(***************************************************************************)
\* most semantic instructions of the block
MaxOps == 2

\* the addresses the value analysis may give
ClpValues ==
    {ClpAll, ClpInf} \cup {ClpConst(a) : a \in Addresses}
        \cup {ClpRange(p[1], p[2]) :
                  p \in {x \in Addresses \X Addresses : x[1] < x[2]}}
\* those of the blocks of two semantic instructions
FewValues ==
    {ClpAll, ClpInf, ClpConst(0), ClpConst(IoBase), ClpConst(FreeBase),
     ClpRange(IoBase - BlockSize, IoBase + 1), ClpRange(0, 2 * BlockSize - 1),
     ClpRange(0, 4 * BlockSize - 1)}
\* the semantic instructions: a load, a store, or another one
SemInsts(values) ==
    {[op |-> o, addr |-> v] : o \in {"LOAD", "STORE"}, v \in values}
        \cup {[op |-> "ADD", addr |-> ClpAll]}
\* the blocks given to processBB
BuildBlocks ==
    {<<x>> : x \in SemInsts(ClpValues)}
        \cup {<<x, y>> : x \in SemInsts(FewValues), y \in SemInsts(FewValues)}

InitBuild ==
    /\ ws = NoWs
    /\ \E present \in BOOLEAN, n \in SetCounts, policy \in Policies,
          ways \in 1 .. WayCount, wa \in BOOLEAN :
           ab = [NoAB EXCEPT !.stage = "start",
                             !.cache = [present |-> present, setCount |-> n,
                                        policy |-> policy, wayCount |-> ways,
                                        writeAllocate |-> wa]]
    /\ rel = NoRel
    /\ assoc = WayCount
    /\ dom = "MUST"
    /\ g = LoopCFG
    /\ accs = [v \in Nodes |-> <<>>]
    /\ out = [v \in Nodes |-> BOT]
    /\ q = NoQuery
    /\ run = NoRun
    /\ inp = NoInput
    /\ cat = NoCat
    /\ evts = NoEvents
    /\ alg = NoAlg
    /\ mp = NoMulti
    /\ bb = NoBB

\* CLPAccessBuilder::setup
Builder_setup ==
    /\ ab.stage = "start"
    /\ ab' = IF ~ab.cache.present
             THEN [ab EXCEPT !.stage = "failed", !.failed = "no data cache!"]
             ELSE [ab EXCEPT !.stage = "built",
                             !.coll = SetCollection(ab.cache.setCount)]
    /\ UNCHANGED <<assoc, anaVars, catVars, alg, mp, bb, rel, ws>>

\* CLPAccessBuilder::processBB on a block of the semantic instructions ops;
\* log keeps the block
Builder_processBB(basic, ops) ==
    /\ ab.stage = "built"
    /\ LET f == Len(ab.accs)
           st == processBB_insts([coll |-> ab.coll, accs |-> ab.accs,
                                  warns |-> ab.warns, failed |-> ""],
                                 ab.cache, ops, 1)
       IN ab' = IF ~basic THEN [ab EXCEPT !.stage = "accessed", !.log = <<>>]
                ELSE [ab EXCEPT !.stage = IF st.failed # "" THEN "failed"
                                          ELSE "accessed",
                                !.log = ops,
                                !.coll = st.coll,
                                !.accs = st.accs,
                                !.warns = st.warns,
                                !.failed = st.failed,
                                !.recorded = IF st.failed # "" THEN @
                                             ELSE SubSeq(st.accs, f + 1, Len(st.accs))]
    /\ UNCHANGED <<assoc, anaVars, catVars, alg, mp, bb, rel, ws>>

\* the setup of an analysis (MUST, MAY, PERS, MultiPERS): A = actualAssoc(..)
Analysis_setup ==
    /\ ab.stage = "accessed"
    /\ LET r == actualAssoc(ab.cache)
       IN ab' = IF r.ok THEN [ab EXCEPT !.stage = "ready", !.A = r.A]
                ELSE [ab EXCEPT !.stage = "failed", !.failed = "assertion"]
    /\ UNCHANGED <<assoc, anaVars, catVars, alg, mp, bb, rel, ws>>

\* Analysis::process: the fixed points of the sets
Analysis_process ==
    /\ ab.stage = "ready"
    /\ ab' = [ab EXCEPT !.stage = "fixpoint"]
    /\ UNCHANGED <<assoc, anaVars, catVars, alg, mp, bb, rel, ws>>

NextBuild ==
    \/ Builder_setup
    \/ \E basic \in BOOLEAN, ops \in BuildBlocks : Builder_processBB(basic, ops)
    \/ Analysis_setup
    \/ Analysis_process

SpecBuild == InitBuild /\ [][NextBuild]_vars

(***************************************************************************)
(* Claims on the access builder and the configuration.                     *)
(***************************************************************************)
\* C28: with a replacement policy other than LRU the analysis aborts before
\* any fixed point, and no analysis gets a substituted associativity
C28_NonLruAborts ==
    ab.stage \in {"ready", "fixpoint"} =>
        ab.cache.policy = "LRU" /\ ab.A = ab.cache.wayCount

\* processBB recorded the accesses of the block kept in log
Accessed == ab.stage = "accessed" /\ ab.log # <<>>
\* the memory operations of the block
MemOps == {i \in DOMAIN ab.log : ab.log[i].op \in {"LOAD", "STORE"}}
\* the accesses recorded for the semantic instruction i
AccessesOf(i) == {j \in DOMAIN ab.recorded : ab.recorded[j].inst = i}
\* exactly one access was recorded for i, of a kind among kinds
OneAccess(i, kinds) ==
    /\ Cardinality(AccessesOf(i)) = 1
    /\ \A j \in AccessesOf(i) : ab.recorded[j].kind \in kinds
\* the address of i is a bounded, non-constant range
BoundedRange(i) == ab.log[i].addr.k = "range"
\* its first and last addresses lie in two different banks
CrossBank(i) ==
    LET first == Memory_get(ab.log[i].addr.l)
        last == Memory_get(ab.log[i].addr.h)
    IN first # NoBank /\ last # NoBank /\ first # last
\* its first and last addresses lie in the same bank
OneBank(i) ==
    LET first == Memory_get(ab.log[i].addr.l)
    IN first # NoBank /\ first = Memory_get(ab.log[i].addr.h)
\* the number of cache lines it covers
LinesOf(i) == Cache_block(ab.log[i].addr.h) - Cache_block(ab.log[i].addr.l) + 1

\* C29: for a memory operation on a bounded, non-constant range whose first
\* and last addresses lie in two different banks, the builder warns and
\* records exactly one access, of kind ANY
C29_CrossBankAny ==
    Accessed =>
        \A i \in MemOps :
            BoundedRange(i) /\ CrossBank(i) =>
                i \in ab.warns /\ OneAccess(i, {"ANY"})

\* C30: a range access is degraded to ANY, with a warning, exactly when it
\* is unbounded or covers more cache lines than setCount; a bounded range
\* of one bank covering setCount lines or fewer stays BLOCK or ENUM
C30_OversizedAny ==
    Accessed =>
        \A i \in MemOps :
            /\ ab.log[i].addr.k = "inf" => i \in ab.warns /\ OneAccess(i, {"ANY"})
            /\ BoundedRange(i) /\ OneBank(i) =>
                   IF LinesOf(i) > ab.cache.setCount
                   THEN i \in ab.warns /\ OneAccess(i, {"ANY"})
                   ELSE i \notin ab.warns /\ OneAccess(i, {"BLOCK", "ENUM"})

(***************************************************************************)
(* An Analysis on a collection: configuration with ONLY_SET, set-up, then  *)
(* the processing of the workspace.                                        *)
(***************************************************************************)
\* most values of ONLY_SET
MaxOnly == 3

InitOnly ==
    /\ \E n \in SetCounts :
           \E counts \in [0 .. (n - 1) -> 0 .. 1] :
               ws = [NoWs EXCEPT !.stage = "made", !.n = n, !.counts = counts]
    /\ ab = NoAB
    /\ rel = NoRel
    /\ assoc = WayCount
    /\ dom = "MUST"
    /\ g = LoopCFG
    /\ accs = [v \in Nodes |-> <<>>]
    /\ out = [v \in Nodes |-> BOT]
    /\ q = NoQuery
    /\ run = NoRun
    /\ inp = NoInput
    /\ cat = NoCat
    /\ evts = NoEvents
    /\ alg = NoAlg
    /\ mp = NoMulti
    /\ bb = NoBB

\* Analysis::configure with the values of ONLY_SET in the properties
Analysis_configure(values) ==
    /\ ws.stage = "made"
    /\ ws' = [ws EXCEPT !.stage = "configured", !.only = @ \o values]
    /\ UNCHANGED <<assoc, anaVars, catVars, alg, mp, bb, rel, ab>>

\* Analysis::setup: a domain and an analyzer for each set with blocks
Analysis_setupSets ==
    /\ ws.stage = "configured"
    /\ ws' = [ws EXCEPT !.stage = "ready", !.anas = Analysis_anas(ws.n, ws.counts)]
    /\ UNCHANGED <<assoc, anaVars, catVars, alg, mp, bb, rel, ab>>

\* Analysis::processWorkSpace
Analysis_processAll ==
    /\ ws.stage = "ready"
    /\ ws' = [Analysis_processWorkSpace(ws, ws.anas, ws.n, ws.counts, ws.only)
                 EXCEPT !.stage = "done"]
    /\ UNCHANGED <<assoc, anaVars, catVars, alg, mp, bb, rel, ab>>

\* the values ONLY_SET may hold: the sets, one below, one above
OnlyValues == -1 .. ws.n
OnlyLists ==
    UNION {[1 .. k -> OnlyValues] : k \in 0 .. MaxOnly}

NextOnly ==
    \/ \E values \in OnlyLists : Analysis_configure(values)
    \/ Analysis_setupSets
    \/ Analysis_processAll

SpecOnly == InitOnly /\ [][NextOnly]_vars

(***************************************************************************)
(* Claims on the sets processed.                                           *)
(***************************************************************************)
\* the listed values that are sets of the cache, in the order listed
RECURSIVE ValidOnly(_, _)
ValidOnly(only, n) ==
    IF only = <<>> THEN <<>>
    ELSE IF Head(only) >= 0 /\ Head(only) < n
         THEN <<Head(only)>> \o ValidOnly(Tail(only), n)
         ELSE ValidOnly(Tail(only), n)
\* the listed values that are not, in the order listed
RECURSIVE InvalidOnly(_, _)
InvalidOnly(only, n) ==
    IF only = <<>> THEN <<>>
    ELSE IF Head(only) >= 0 /\ Head(only) < n
         THEN InvalidOnly(Tail(only), n)
         ELSE <<Head(only)>> \o InvalidOnly(Tail(only), n)
\* the elements of a sequence
Range(seq) == {seq[i] : i \in DOMAIN seq}
\* the elements of seq kept by the set keep, in order
RECURSIVE Filter(_, _)
Filter(seq, keep) ==
    IF seq = <<>> THEN <<>>
    ELSE IF Head(seq) \in keep THEN <<Head(seq)>> \o Filter(Tail(seq), keep)
         ELSE Filter(Tail(seq), keep)

\* C31: with ONLY_SET values the fixed point runs only for listed sets in
\* [0, setCount); each value out of range gets a diagnostic and is skipped,
\* the other listed values being processed as without it; with no ONLY_SET
\* exactly the sets with blockCount > 0 are processed
C31_OnlySets ==
    ws.stage = "done" =>
        LET nonEmpty == {i \in 0 .. (ws.n - 1) : ws.counts[i] > 0}
        IN IF ws.only # <<>>
           THEN /\ Range(ws.ran) \subseteq Range(ws.only) \cap (0 .. (ws.n - 1))
                /\ ws.errs = InvalidOnly(ws.only, ws.n)
                /\ ws.ran = Filter(ValidOnly(ws.only, ws.n), nonEmpty)
                /\ ws.ran =
                       Analysis_processWorkSpace([ws EXCEPT !.ran = <<>>], ws.anas, ws.n,
                                                 ws.counts, ValidOnly(ws.only, ws.n)).ran
                      \/ ValidOnly(ws.only, ws.n) = <<>>
           ELSE /\ ws.errs = <<>>
                /\ Range(ws.ran) = nonEmpty
                /\ Len(ws.ran) = Cardinality(nonEmpty)

\* a value out of range was listed between two sets with blocks
C31_Witness ==
    /\ ws.stage = "done"
    /\ Len(ws.only) = 3
    /\ ws.only[2] >= ws.n
    /\ ws.only[1] # ws.only[3]
    /\ ws.ran = <<ws.only[1], ws.only[3]>>
    /\ ws.errs = <<ws.only[2]>>

\* no ONLY_SET: a set without block was left out
C31_WitnessAll ==
    /\ ws.stage = "done"
    /\ ws.only = <<>>
    /\ ws.ran # <<>>
    /\ \E i \in 0 .. (ws.n - 1) : ws.counts[i] = 0

(***************************************************************************)
(* The prefix event builder on a block: the accesses of the block, and for *)
(* each in-edge the accesses of its source block with the answers of the   *)
(* analyses in the source block and along the edge.                        *)
(***************************************************************************)
\* most accesses of a source block
MaxSrcAcc == 2

\* the accesses of a source block: action, kind, MUST age in the source
\* block, MUST age along the edge, PERS age in the source block, multiCount
\* of the instruction, loop depth of the source block
SrcAlphabet ==
    {<<"LOAD", "BLOCK", 0, A, AgeBOT, 0, 0>>, <<"LOAD", "BLOCK", A, 0, AgeBOT, 0, 0>>,
     <<"STORE", "BLOCK", A, A, 0, 0, 0>>, <<"STORE", "BLOCK", A, A, 0, 0, 1>>,
     <<"LOAD", "ANY", A, A, AgeBOT, 0, 0>>, <<"LOAD", "ANY", A, A, AgeBOT, MaxMulti, 0>>,
     <<"DIRECT_LOAD", "ANY", A, A, AgeBOT, 0, 0>>, <<"PURGE", "ANY", A, A, AgeBOT, 0, 0>>}

\* an access of a source block, the block of the edges being at depth 0
SrcAccess(k, bs) ==
    LET fast == CHOOSE b \in Banks : b.name = "fast"
        answers(must, pers) ==
            IF k[2] = "BLOCK"
            THEN <<[must |-> must, may |-> 0, pers |-> pers, level |-> 0,
                    bank |-> fast]>>
            ELSE <<>>
    IN [action |-> k[1], kind |-> k[2], multi |-> k[6], tsize |-> 4,
        blockSize |-> bs, blocks |-> answers(k[4], AgeBOT),
        inSource |-> answers(k[3], k[5]), mpers |-> FALSE, pers |-> TRUE,
        may |-> FALSE, depth |-> 0, srcDepth |-> k[7], callCount |-> 0,
        callerDepth |-> 0, callCount2 |-> 0, callerDepth2 |-> 0]

\* the access lists of a source block, of one instruction
SrcLists(bs, most) ==
    UNION {[1 .. n -> {[inst |-> 1, x |-> SrcAccess(k, bs)] : k \in SrcAlphabet}]
              : n \in 0 .. most}

InitPrefix ==
    /\ ws = NoWs
    /\ ab = NoAB
    /\ rel = NoRel
    /\ assoc = WayCount
    /\ dom = "MUST"
    /\ g = LoopCFG
    /\ accs = [v \in Nodes |-> <<>>]
    /\ out = [v \in Nodes |-> BOT]
    /\ q = NoQuery
    /\ run = NoRun
    /\ inp = NoInput
    /\ cat = NoCat
    /\ evts = NoEvents
    /\ alg = NoAlg
    /\ mp = NoMulti
    /\ \E n \in 0 .. 1, bs \in BlockSizes, ne \in 1 .. MaxInEdges, basic \in BOOLEAN :
       \E ks \in [1 .. n -> BBAlphabet], first \in SrcLists(bs, MaxSrcAcc),
          others \in [2 .. ne -> SrcLists(bs, 1)] :
            LET srcs == [e \in 1 .. ne |-> IF e = 1 THEN first ELSE others[e]]
            IN bb = [done |-> FALSE, basic |-> basic,
                     list |-> [i \in 1 .. n |->
                                 [inst |-> 1, x |-> BBAccess(ks[i], 0, bs)]],
                     srcs |-> srcs,
                     edges |-> ne, events |-> [e \in 1 .. ne |-> <<>>],
                     pevents |-> [e \in 1 .. ne |-> <<>>]]

\* PrefixEventBuilder::processBB
PrefixProcessBB ==
    /\ ~bb.done
    /\ LET st == PrefixEventBuilder_processBB(bb)
       IN bb' = [bb EXCEPT !.done = TRUE, !.events = st.events,
                           !.pevents = st.pevents]
    /\ UNCHANGED <<assoc, anaVars, catVars, alg, mp, rel, ab, ws>>

SpecPrefix == InitPrefix /\ [][PrefixProcessBB]_vars

(***************************************************************************)
(* Claims on the prefix event builder.                                     *)
(***************************************************************************)
\* the events EventBuilder::processBB puts on an in-edge of the block
RegularEvents == processBB_loop(bb.list, 1, 0, <<>>)
\* the access i of the source of edge e with the answers of the analyses
\* in the source block
InSourceAccess(e, i) ==
    [bb.srcs[e][i].x EXCEPT !.blocks = bb.srcs[e][i].x.inSource,
                            !.depth = bb.srcs[e][i].x.srcDepth]
\* the events of the accesses of the source of edge e, on these answers
SourceEvents(e) ==
    processBB_loop([i \in DOMAIN bb.srcs[e] |->
                       [inst |-> bb.srcs[e][i].inst, x |-> InSourceAccess(e, i)]],
                   1, 0, <<>>)
\* the events without the block of their access
Untagged(evs) == [i \in DOMAIN evs |-> [a |-> evs[i].a, ev |-> evs[i].ev]]

\* C32: for every in-edge e of a basic block the prefix builder puts on the
\* prefix list of e the events of the accesses of the source of e, built on
\* the ages asked in the source block, and on the regular list of e exactly
\* the events EventBuilder alone puts there; no event of one kind is on the
\* list of the other
C32_PrefixEvents ==
    bb.done /\ "pevents" \in DOMAIN bb =>
        IF bb.basic
        THEN \A e \in 1 .. bb.edges :
                 /\ Untagged(bb.pevents[e]) = SourceEvents(e)
                 /\ Untagged(bb.events[e]) = RegularEvents
                 /\ \A i \in DOMAIN bb.pevents[e] : bb.pevents[e][i].from = "source"
                 /\ \A i \in DOMAIN bb.events[e] : bb.events[e][i].from = "sink"
        ELSE \A e \in 1 .. bb.edges : bb.pevents[e] = <<>> /\ bb.events[e] = <<>>

\* an edge got a prefix event that the ages along the edge would have made
\* another one, and a regular event
C32_Witness ==
    /\ bb.done /\ "pevents" \in DOMAIN bb /\ bb.basic
    /\ \E e \in 1 .. bb.edges :
          /\ bb.events[e] # <<>>
          /\ \E i \in DOMAIN bb.pevents[e] :
                LET x == bb.srcs[e][bb.pevents[e][i].a].x
                IN /\ x.kind = "BLOCK"
                   /\ <<bb.pevents[e][i].ev>> # Evt_processAccess(x)

(***************************************************************************)
(* The MUST domain side by side with a concrete LRU set: two paths from a  *)
(* fork, each with its abstract state and the content of the set of the   *)
(* cache along it; a join keeps the content of the path it is reached by.  *)
(***************************************************************************)
\* the contents of the set after the access a: an access to an unknown
\* address reaches any block of the set, known or not, or another set; a
\* purge removes the block, or any blocks when the address is unknown
ConcreteAfter(c, a) ==
    CASE a.action \in {"LOAD", "STORE"} /\ a.kind = "BLOCK" -> {lru(c, a.id)}
      [] a.action \in {"LOAD", "STORE"} -> {c} \cup {lru(c, b) : b \in Names}
      [] a.action = "PURGE" /\ a.kind = "BLOCK" -> {Without(c, a.id)}
      [] a.action = "PURGE" ->
            {SelectSeq(c, LAMBDA x : x \in keep) : keep \in SUBSET Names}
      [] OTHER -> {c}

InitSound ==
    /\ ws = NoWs
    /\ ab = NoAB
    /\ rel = NoRel
    /\ assoc \in 1 .. WayCount
    /\ dom = "MUST"
    /\ g = LoopCFG
    /\ accs = [v \in Nodes |-> <<>>]
    /\ out = [v \in Nodes |-> BOT]
    /\ q = NoQuery
    /\ run = NoRun
    /\ inp = NoInput
    /\ cat = NoCat
    /\ evts = NoEvents
    /\ \E c \in Caches(WayCount) :
           /\ Len(c) <= assoc
           /\ alg = [pc |-> "sound", s |-> <<entry("MUST"), entry("MUST")>>,
                     c |-> <<c, c>>, x |-> AnyAccess("NO_ACCESS"), joined |-> FALSE]
    /\ mp = NoMulti
    /\ bb = NoBB

\* MUST::update(a, s_i) on the path i, with the access done on the set
SoundUpdate(i, a) ==
    /\ alg.pc = "sound"
    /\ \E c \in ConcreteAfter(alg.c[i], a) :
           alg' = [alg EXCEPT !.s[i] = MUST_update(a, @), !.c[i] = c, !.x = a,
                              !.joined = FALSE]
    /\ UNCHANGED <<assoc, anaVars, catVars, mp, bb, rel, ab, ws>>

\* MUST::join(s_i, s_k) where the path i meets the path k
SoundJoin(i, k) ==
    /\ alg.pc = "sound"
    /\ i # k
    /\ alg' = [alg EXCEPT !.s[i] = MUST_join(@, alg.s[k]), !.joined = TRUE]
    /\ UNCHANGED <<assoc, anaVars, catVars, mp, bb, rel, ab, ws>>

NextSound ==
    \/ \E i \in 1 .. 2, a \in DomAlphabet : SoundUpdate(i, a)
    \/ \E i \in 1 .. 2, k \in 1 .. 2 : SoundJoin(i, k)

SpecSound == InitSound /\ [][NextSound]_vars

(***************************************************************************)
(* Claims on the soundness of MUST.                                        *)
(***************************************************************************)
\* every block of age below A in s is in the set c, no deeper than its age
MustSound(s, c) ==
    ~s.bot =>
        \A b \in Ids :
            s.age[b] < A => \E p \in 1 .. Len(c) : c[p] = b /\ p - 1 <= s.age[b]

\* C33: after any sequence of LOAD/STORE of a known block, LOAD/STORE of
\* kind ANY or RANGE, PURGE and joins applied by MUST from the entry state
\* TOP, beside a concrete LRU set started from any content, every block of
\* age below A is in the concrete set at a position not above its age
C33_MustSound ==
    alg.pc = "sound" => \A i \in 1 .. 2 : MustSound(alg.s[i], alg.c[i])

\* a join kept a block guaranteed on both paths, at different ages
C33_Witness ==
    /\ alg.pc = "sound"
    /\ alg.joined
    /\ \E b \in Ids :
          /\ alg.s[1].age[b] < A
          /\ alg.s[2].age[b] < alg.s[1].age[b]
          /\ alg.c[1] # alg.c[2]

(***************************************************************************)
(* Claims on the transfer of a block in MultiPERS.                         *)
(***************************************************************************)
\* the step is a call of MultiPERS::update(Block *, s) with s other than BOT
BlockCall == mp.phase = "before" /\ mp'.phase = "after" /\ mp.cur # MBOT

\* the stack of the depth of s whose levels are those of s after the
\* accesses of the block
BlockUpdated ==
    [i \in 1 .. Count(mp, mp.cur) |->
        applyAll("PERS", accs[mp.pos], 1, Levels(mp, mp.cur)[i])]

\* C34: MultiPERS.update(block v, s), s not BOT, returns a stack of the depth
\* of s whose level i is level i of s after the accesses of v to the set, in
\* program order, whatever state the domain produced last
C34_BlockUpdate ==
    [][BlockCall => Levels(mp', mp'.last.r) = BlockUpdated]_vars

(***************************************************************************)
(* Claims on the transfer of an access to a block in MUST, MAY and PERS.   *)
(***************************************************************************)
\* Apply has run a LOAD or STORE of a known block of the set on a state that
\* is not BOT
AccessApplied ==
    /\ alg.pc = "done"
    /\ alg.x.kind = "BLOCK"
    /\ alg.x.action \in {"LOAD", "STORE"}
    /\ ~alg.s[1].bot

\* the age of j after an access to b in the state of ages s
AgedBy(s, b, j) ==
    LET seen == dom # "PERS" \/ s[j] # AgeBOT
        sb == IF dom = "PERS" /\ s[b] = AgeBOT THEN A ELSE s[b]
    IN IF j = b THEN 0
       ELSE IF s[j] <= sb /\ s[j] # A /\ seen THEN s[j] + 1 ELSE s[j]

\* the ages of a state are in [0..A], or not-seen in PERS
AgesInRange(s) ==
    \A j \in Ids : s.age[j] \in 0 .. A \/ (dom = "PERS" /\ s.age[j] = AgeBOT)

\* C35: in MUST, MAY and PERS an access to block b in a state s that is not
\* BOT gives age 0 to b and to every other block j the age s[j] + 1 when
\* s[j] <= s[b] and s[j] is not A (nor not-seen in PERS, a not-seen s[b]
\* counting as A), else s[j]; every age stays in [0..A] or not-seen, and b
\* is the only block of age 0 right after the access
C35_AccessTransfer ==
    /\ \A i \in 1 .. 3 : ~alg.s[i].bot => AgesInRange(alg.s[i])
    /\ AccessApplied =>
          /\ \A j \in Ids : alg.r[1].age[j] = AgedBy(alg.s[1].age, alg.x.id, j)
          /\ \A j \in Ids : alg.r[1].age[j] = 0 <=> j = alg.x.id
          /\ AgesInRange(alg.r[1])

\* the access aged a block that was as old as the accessed block
C35_Witness ==
    /\ AccessApplied
    /\ \E j \in Ids :
          /\ j # alg.x.id
          /\ alg.s[1].age[j] = alg.s[1].age[alg.x.id]
          /\ alg.r[1].age[j] = alg.s[1].age[j] + 1

\* in PERS the access to a block not seen yet aged a block seen
C35_WitnessNotSeen ==
    /\ AccessApplied
    /\ dom = "PERS"
    /\ alg.s[1].age[alg.x.id] = AgeBOT
    /\ \E j \in Ids : alg.r[1].age[j] \in 1 .. A /\ alg.r[1].age[j] = alg.s[1].age[j] + 1

(***************************************************************************)
(* MUST and PERS on sets whose product A * N does not fit the 8 bits of    *)
(* ACSDomain::sumA: one state s built by transfers and joins with the state *)
(* t of another path, p being s before the last operation.                *)
(***************************************************************************)
MaxWideOps == 4
\* the associativities drawn: small ones, and those with A * N = 256 and 258
WideAssocs == {1, 2, 256 \div NBlocks, (256 \div NBlocks) + 1}

InitWide ==
    /\ ws = NoWs
    /\ ab = NoAB
    /\ rel = NoRel
    /\ assoc \in WideAssocs
    /\ dom \in {"MUST", "PERS"}
    /\ g = LoopCFG
    /\ accs = [v \in Nodes |-> <<>>]
    /\ out = [v \in Nodes |-> BOT]
    /\ q = NoQuery
    /\ run = NoRun
    /\ inp = NoInput
    /\ cat = NoCat
    /\ evts = NoEvents
    /\ alg = [pc |-> "wide", s |-> entry(dom), t |-> entry(dom), p |-> BOT,
              x |-> AnyAccess("NO_ACCESS"), op |-> "none", n |-> 0]
    /\ mp = NoMulti
    /\ bb = NoBB

\* Domain::update(a, s)
WideUpdate(a) ==
    /\ alg.pc = "wide"
    /\ alg.n < MaxWideOps
    /\ alg' = [alg EXCEPT !.s = update(dom, a, @), !.p = alg.s, !.x = a,
                          !.op = "update", !.n = @ + 1]
    /\ UNCHANGED <<assoc, anaVars, catVars, mp, bb, rel, ab, ws>>

\* the solver goes on with another path, and keeps the state of this one
WideKeep ==
    /\ alg.pc = "wide"
    /\ alg.t # alg.s
    /\ alg' = [alg EXCEPT !.s = alg.t, !.t = alg.s, !.op = "keep"]
    /\ UNCHANGED <<assoc, anaVars, catVars, mp, bb, rel, ab, ws>>

\* the solver keeps the state of this path for a path that forks here
WideFork ==
    /\ alg.pc = "wide"
    /\ alg.t # alg.s
    /\ alg' = [alg EXCEPT !.t = alg.s, !.op = "keep"]
    /\ UNCHANGED <<assoc, anaVars, catVars, mp, bb, rel, ab, ws>>

\* Domain::join(s, t)
WideJoin ==
    /\ alg.pc = "wide"
    /\ alg.n < MaxWideOps
    /\ alg' = [alg EXCEPT !.s = join(dom, @, alg.t), !.p = alg.s,
                          !.op = "join", !.n = @ + 1]
    /\ UNCHANGED <<assoc, anaVars, catVars, mp, bb, rel, ab, ws>>

NextWide ==
    \/ \E a \in DomAlphabet : WideUpdate(a)
    \/ WideKeep
    \/ WideFork
    \/ WideJoin

SpecWide == InitWide /\ [][NextWide]_vars

(***************************************************************************)
(* Claims on the normalisation to TOP.                                     *)
(***************************************************************************)
\* the last operation is one that normalises: MUST join, purge of a block,
\* accessAny, or PERS join, on states that are not BOT
Normalising ==
    /\ alg.pc = "wide"
    /\ ~alg.p.bot
    /\ \/ alg.op = "join" /\ ~alg.t.bot
       \/ /\ alg.op = "update"
          /\ dom = "MUST"
          /\ \/ alg.x.action = "PURGE" /\ alg.x.kind = "BLOCK"
             \/ alg.x.action \in {"LOAD", "STORE"} /\ alg.x.kind \in {"ANY", "RANGE"}

\* the ages the operation computes, before the normalisation
ResultingAges ==
    [i \in Ids |->
        CASE alg.op = "join" /\ dom = "PERS" /\ alg.p.age[i] = AgeBOT -> alg.t.age[i]
          [] alg.op = "join" /\ dom = "PERS" /\ alg.t.age[i] = AgeBOT -> alg.p.age[i]
          [] alg.op = "join" -> Max(alg.p.age[i], alg.t.age[i])
          [] alg.x.action = "PURGE" -> IF i = alg.x.id THEN A ELSE alg.p.age[i]
          [] OTHER -> Min(A, alg.p.age[i] + 1)]

\* C36: for every A and N, MUST join, purge and accessAny and PERS join
\* return TOP exactly when the sum of the resulting ages is A * N, also when
\* A * N >= 256, the ages and the stored product being 8-bit values and a
\* not-seen entry of PERS counting 255
C36_TopNormalisation ==
    Normalising => (alg.s = TOP(dom) <=> sum(ResultingAges) = assoc * NBlocks)

(***************************************************************************)
(* Claims on the transfers applied to BOT.                                 *)
(***************************************************************************)
\* C37: in every domain update(access, BOT), update(block, BOT) and
\* update(edge, BOT) return BOT: an unreachable state never becomes a
\* regular state through a transfer, the replay of Analysis.at included
C37_BotStrict ==
    alg.pc = "done" =>
        \A i \in 1 .. 2 :
            alg.s[i].bot =>
                /\ alg.r[i].bot
                /\ update_block(dom, <<alg.x>>, alg.s[i]).bot
                /\ update_edge(dom, <<alg.x>>, alg.s[i]).bot

(***************************************************************************)
(* Claims on the use counts of the states.                                 *)
(***************************************************************************)
\* C38: an age or level query (before, the replay of at, the release of the
\* state returned) leaves the use count of every state as it was before the
\* query, wherever the looked access is in its block
C38_UseBalance ==
    [][(rel'.last.op = "age" /\ rel'.last # rel.last) => rel'.held = rel.held]_vars

(***************************************************************************)
(* CategoryBuilder on one access of a block with several in-edges: the     *)
(* access is the same along every edge, the answers of the analyses differ.*)
(***************************************************************************)
\* the answers for a block of the access: all of them for an access of one
\* block, those of MUST and MultiPERS for an access of several blocks
ViewAnswers(k) ==
    {b \in BlockAnswers(TRUE, TRUE, TRUE) :
        /\ b.bank.name = "fast"
        /\ k = "ENUM" => b.may = A /\ b.pers = AgeBOT}

InitCatBB ==
    /\ ws = NoWs
    /\ ab = NoAB
    /\ rel = NoRel
    /\ assoc = WayCount
    /\ dom = "MUST"
    /\ g = LoopCFG
    /\ accs = [v \in Nodes |-> <<>>]
    /\ out = [v \in Nodes |-> BOT]
    /\ q = NoQuery
    /\ run = NoRun
    /\ \E act \in {"LOAD", "STORE", "PURGE", "DIRECT_LOAD"}, k \in {"BLOCK", "ENUM"},
          d \in 0 .. MaxDepth, n \in 1 .. MaxInEdges :
       \E len \in IF k = "ENUM" THEN 1 .. MaxEnum ELSE {1} :
       \E bs \in [1 .. n -> [1 .. len -> ViewAnswers(k)]] :
            inp = [NoInput EXCEPT !.action = act, !.kind = k, !.depth = d,
                                  !.mpers = TRUE, !.pers = TRUE, !.may = TRUE,
                                  !.callCount = 1,
                                  !.blocks = bs]
    /\ cat = NoCat
    /\ evts = NoEvents
    /\ alg = NoAlg
    /\ mp = NoMulti
    /\ bb = NoBB

\* the access as seen along the k-th in-edge
ViewAlong(k) == [inp EXCEPT !.blocks = inp.blocks[k]]

\* CategoryBuilder::processBB on the block of the access
CategorizeBB ==
    /\ ~cat.done
    /\ LET r == CategoryBuilder_processBB([k \in 1 .. Len(inp.blocks) |-> ViewAlong(k)],
                                          1, [c |-> "NO_CAT", h |-> NoBlock])
       IN cat' = [done |-> TRUE, c |-> r.c, h |-> r.h]
    /\ UNCHANGED <<assoc, anaVars, inp, evts, alg, mp, bb, rel, ab, ws>>

SpecCatBB == InitCatBB /\ [][CategorizeBB]_vars

(***************************************************************************)
(* Claims on the anchor of a block with several in-edges.                  *)
(***************************************************************************)
\* the classification that produced the stored category: the one along the
\* last in-edge
LastClassification == Cat_processAccess(ViewAlong(Len(inp.blocks)))

\* C39: after CategoryBuilder has processed a block with any number of
\* in-edges, RELATIVE_TO(a) of a LOAD or STORE a is set if and only if
\* CATEGORY(a) is PE, and is then the anchor of the classification that
\* produced the category stored
C39_AnchorOfCategory ==
    cat.done /\ inp.action \in {"LOAD", "STORE"} =>
        /\ cat.h # NoBlock <=> cat.c = "PE"
        /\ cat.c = "PE" => cat.h = LastClassification.h

(***************************************************************************)
(* The copy of an Access: the object with its five fields and its payload. *)
(***************************************************************************)
\* sem::type_t, as far as the access width goes
SemTypes == {"NO_TYPE", "INT8", "INT32"}
\* the index of an access in a multiple-access instruction, -1 for none
Indexes == -1 .. 1
\* Access::Access()
NullAccess ==
    [inst |-> 0, kind |-> "ANY", action |-> "NO_ACCESS", type |-> "NO_TYPE",
     index |-> -1, data |-> <<>>]
\* Access::Access(Inst *, action_t, sem::type_t, int), and the constructors
\* of a BLOCK access (data: the block) and of an ENUM access (data: its blocks)
NewAccess(inst, act, kind, data, type, index) ==
    [inst |-> inst, kind |-> kind, action |-> act, type |-> type,
     index |-> index, data |-> data]
\* the accesses the builders make
BuiltAccesses ==
    {NewAccess(i, act, k[1], k[2], ty, ix) :
        i \in 1 .. 2, act \in {"LOAD", "STORE"},
        k \in {<<"ANY", <<>>>>, <<"BLOCK", <<0>>>>, <<"BLOCK", <<1>>>>, <<"ENUM", <<0, 1>>>>},
        ty \in SemTypes, ix \in Indexes}

\* Access::set: _inst, _kind, _action and the payload are taken from a;
\* _type and _index are left as they are in this
Access_set(this, a) ==
    [this EXCEPT !.inst = a.inst, !.kind = a.kind, !.action = a.action,
                 !.data = a.data]

\* Access::Access(const Access&): set on an object whose fields are not
\* initialised, _type and _index holding any value
Access_copy(a) ==
    {Access_set(NewAccess(0, "NO_ACCESS", "ANY", <<>>, ty, ix), a) :
        ty \in SemTypes, ix \in Indexes}

\* Access::operator=: clear, then set
Access_assign(this, a) == Access_set(this, a)

InitCopy ==
    /\ ws = NoWs
    /\ ab = NoAB
    /\ rel = NoRel
    /\ assoc = WayCount
    /\ dom = "MUST"
    /\ g = LoopCFG
    /\ accs = [v \in Nodes |-> <<>>]
    /\ out = [v \in Nodes |-> BOT]
    /\ q = NoQuery
    /\ run = NoRun
    /\ inp = NoInput
    /\ cat = NoCat
    /\ evts = NoEvents
    /\ \E a \in BuiltAccesses, d \in {NullAccess} \cup {b \in BuiltAccesses : b.inst = 2} :
          alg = [pc |-> "copy", src |-> a, dst |-> d, op |-> "none"]
    /\ mp = NoMulti
    /\ bb = NoBB

\* the access is appended to a list: a new element is copy-constructed
CopyConstruct ==
    /\ alg.pc = "copy"
    /\ alg.op = "none"
    /\ \E c \in Access_copy(alg.src) : alg' = [alg EXCEPT !.dst = c, !.op = "copy"]
    /\ UNCHANGED <<assoc, anaVars, catVars, mp, bb, rel, ab, ws>>

\* the access is assigned to an existing one
Assign ==
    /\ alg.pc = "copy"
    /\ alg.op = "none"
    /\ alg' = [alg EXCEPT !.dst = Access_assign(alg.dst, alg.src), !.op = "assign"]
    /\ UNCHANGED <<assoc, anaVars, catVars, mp, bb, rel, ab, ws>>

NextCopy == CopyConstruct \/ Assign

SpecCopy == InitCopy /\ [][NextCopy]_vars

(***************************************************************************)
(* Claims on the copy of an access.                                        *)
(***************************************************************************)
\* C40: a copy of an Access, by construction or by assignment, equals the
\* original in every attribute: instruction, action, kind, type, index and
\* payload
C40_CopyEqual ==
    alg.pc = "copy" /\ alg.op # "none" => alg.dst = alg.src

====
